---- MODULE Spec2Model ----
(***************************************************************************)
(* Bloom (walidabualafia/todo.js): the access-control rules of the project *)
(* and todo handlers over the SQL store.                                    *)
(*                                                                         *)
(* The state is the four tables of migrationSQL (users, projects, todos,   *)
(* project_members) and their id counters.  Every HTTP handler is an       *)
(* operator from the tables and the request to its outcome (the HTTP       *)
(* status, the error message, the store write it issues), and an action    *)
(* that applies the write of that outcome.  A request carries the caller's *)
(* user id (the subject of a valid token), the already parsed URL ids, the *)
(* decoded JSON body, and `fault`: the number of the store query of this   *)
(* request that fails with a database error other than sql.ErrNoRows       *)
(* (0: none fails).  Descriptions, deadlines, e-mail addresses, passwords  *)
(* and timestamps are not part of the state.                               *)
(***************************************************************************)
EXTENDS Bags, Integers, FiniteSets, Sequences, TLC

\* ---- bounds of the model ----
MaxUsers == 3
MaxProjects == 2
MaxTodos == 1
\* projects created under AdminSpec and PoolSpec
AdminMaxProjects == 1
\* users and todos created under FieldSpec
FieldMaxUsers == 2
FieldMaxTodos == 2

\* ---- net/http status codes written by the handlers ----
StatusOK == 200
StatusCreated == 201
StatusNoContent == 204
StatusBadRequest == 400
StatusUnauthorized == 401
StatusForbidden == 403
StatusNotFound == 404
StatusConflict == 409
StatusInternalServerError == 500

\* ---- errors returned by database/sql ----
Nil == "nil"
ErrNoRows == "sql.ErrNoRows"
ErrDB == "db error"

\* ---- values of the requests ----
UserIds == 1..MaxUsers
ProjectIds == 1..MaxProjects
TodoIds == 1..MaxTodos
\* the i-th registration uses Usernames[i] or a name that is already taken
Usernames == <<"alice", "bob", "carol", "dave">>
NameSet == {Usernames[i] : i \in 1..MaxUsers}
\* role strings of an add-member body ("" is an omitted field)
RoleStrings == {"", "viewer", "editor", "owner", "admin"}
\* names of a project body ("" is an omitted field)
ProjectNames == {"", "n1", "n2"}
\* a body that json.Decode rejects
Malformed == [malformed |-> TRUE]
\* an omitted *string field of an update body
Omitted == "<nil>"
TitleStrings == {"", "t1"}
StatusStrings == {"", "completed", "bogus"}
PriorityStrings == {"", "bogus"}
\* every status and priority of model/todo.go, an omitted one and an unknown one
AllStatusStrings == {"", "pending", "in_progress", "completed", "bogus"}
AllPriorityStrings == {"", "low", "medium", "high", "bogus"}
\* no response body besides the error message
NoData == "none"

VARIABLES
    users,          \* table users: id -> [username, is_admin]
    projects,       \* table projects: id -> [name, owner_id]
    todos,          \* table todos: id -> [project_id, title, status, priority]
    members,        \* table project_members: set of [project_id, user_id, role]
    nextUserId,     \* AUTOINCREMENT / BIGSERIAL of users.id
    nextProjectId,  \* AUTOINCREMENT / BIGSERIAL of projects.id
    nextTodoId      \* AUTOINCREMENT / BIGSERIAL of todos.id

vars == <<users, projects, todos, members, nextUserId, nextProjectId, nextTodoId>>

\* ---- model.ValidStatus, model.ValidPriority ----
ValidStatus(s) == s \in {"pending", "in_progress", "completed"}

\* a check that accepts every priority string
ValidPriority_AcceptsAll(p) == TRUE

ValidPriority(p) == p \in {"low", "medium", "high"}

\* ---- helpers on the tables ----
Drop(f, k) == [i \in DOMAIN f \ {k} |-> f[i]]

MemberRows(p, u) == {m \in members : m.project_id = p /\ m.user_id = u}

\* ======================= store: reads =======================

\* GetProject: SELECT ... FROM projects p JOIN users u ON p.owner_id = u.id WHERE p.id = ?
GetProject(id, fail) ==
    IF fail THEN [err |-> ErrDB, failed |-> TRUE]
    ELSE IF id \in DOMAIN projects /\ projects[id].owner_id \in DOMAIN users
    THEN [err |-> Nil, failed |-> FALSE, project |-> projects[id]]
    ELSE [err |-> ErrNoRows, failed |-> FALSE]

\* GetTodo: SELECT ... FROM todos WHERE id = ?
GetTodo(id, fail) ==
    IF fail THEN [err |-> ErrDB, failed |-> TRUE]
    ELSE IF id \in DOMAIN todos
    THEN [err |-> Nil, failed |-> FALSE, todo |-> todos[id]]
    ELSE [err |-> ErrNoRows, failed |-> FALSE]

\* GetUserByID: SELECT ... FROM users WHERE id = ?
GetUserByID(id, fail) ==
    IF fail THEN [err |-> ErrDB, failed |-> TRUE]
    ELSE IF id \in DOMAIN users
    THEN [err |-> Nil, failed |-> FALSE, user |-> users[id]]
    ELSE [err |-> ErrNoRows, failed |-> FALSE]

\* GetUserByUsername: SELECT ... FROM users WHERE username = ?
GetUserByUsername(name, fail) ==
    IF fail THEN [err |-> ErrDB, failed |-> TRUE]
    ELSE IF \E u \in DOMAIN users : users[u].username = name
    THEN [err |-> Nil, failed |-> FALSE,
          id |-> CHOOSE u \in DOMAIN users : users[u].username = name]
    ELSE [err |-> ErrNoRows, failed |-> FALSE]

\* A membership test that knows the owner only (what IsProjectMember would be
\* without the membership half of its UNION).
IsProjectMember_OwnerOnly(p, u, fail) ==
    IF fail THEN [ok |-> FALSE, err |-> ErrDB, failed |-> TRUE]
    ELSE [ok |-> p \in DOMAIN projects /\ projects[p].owner_id = u,
          err |-> Nil, failed |-> FALSE]

\* IsProjectMember: COUNT/EXISTS over (owner row UNION membership row)
IsProjectMember(p, u, fail) ==
    IF fail THEN [ok |-> FALSE, err |-> ErrDB, failed |-> TRUE]
    ELSE [ok |-> \/ (p \in DOMAIN projects /\ projects[p].owner_id = u)
                 \/ MemberRows(p, u) # {},
          err |-> Nil, failed |-> FALSE]

\* A role resolution that asks the membership table before the owner column.
GetMemberRole_MembershipFirst(p, u, fail1, fail2) ==
    IF fail1 THEN [role |-> "", err |-> ErrDB, failed |-> TRUE]
    ELSE IF p \notin DOMAIN projects THEN [role |-> "", err |-> ErrNoRows, failed |-> FALSE]
    ELSE IF fail2 THEN [role |-> "", err |-> Nil, failed |-> TRUE]
    ELSE IF MemberRows(p, u) # {}
    THEN [role |-> (CHOOSE m \in MemberRows(p, u) : TRUE).role, err |-> Nil, failed |-> FALSE]
    ELSE IF projects[p].owner_id = u THEN [role |-> "owner", err |-> Nil, failed |-> FALSE]
    ELSE [role |-> "", err |-> Nil, failed |-> FALSE]

\* A role resolution that asks the membership table only.
GetMemberRole_MembershipOnly(p, u, fail1, fail2) ==
    IF fail1 THEN [role |-> "", err |-> ErrDB, failed |-> TRUE]
    ELSE IF p \notin DOMAIN projects THEN [role |-> "", err |-> ErrNoRows, failed |-> FALSE]
    ELSE IF fail2 THEN [role |-> "", err |-> Nil, failed |-> TRUE]
    ELSE IF MemberRows(p, u) = {} THEN [role |-> "", err |-> Nil, failed |-> FALSE]
    ELSE [role |-> (CHOOSE m \in MemberRows(p, u) : TRUE).role, err |-> Nil, failed |-> FALSE]

\* GetMemberRole: the owner query, then the membership query whose every
\* error is answered ("", nil)
GetMemberRole(p, u, fail1, fail2) ==
    IF fail1 THEN [role |-> "", err |-> ErrDB, failed |-> TRUE]
    ELSE IF p \notin DOMAIN projects THEN [role |-> "", err |-> ErrNoRows, failed |-> FALSE]
    ELSE IF projects[p].owner_id = u THEN [role |-> "owner", err |-> Nil, failed |-> FALSE]
    ELSE IF fail2 THEN [role |-> "", err |-> Nil, failed |-> TRUE]
    ELSE IF MemberRows(p, u) = {} THEN [role |-> "", err |-> Nil, failed |-> FALSE]
    ELSE [role |-> (CHOOSE m \in MemberRows(p, u) : TRUE).role, err |-> Nil, failed |-> FALSE]

\* the queries one GetMemberRole call sends to the database, in order: the
\* owner query, and the membership query when the owner query returned the
\* row of a project owned by somebody else
GetMemberRoleQueries(p, u, fail1, fail2) ==
    LET ownerQuery == "SELECT owner_id FROM projects WHERE id = ?"
        memberQuery == "SELECT role FROM project_members WHERE project_id = ? AND user_id = ?"
    IN  IF fail1 \/ p \notin DOMAIN projects THEN <<ownerQuery>>
        ELSE IF projects[p].owner_id = u THEN <<ownerQuery>>
        ELSE <<ownerQuery, memberQuery>>

\* ListProjectMembers: the membership rows of the project whose user exists
ListProjectMembers(p) == {m \in members : m.project_id = p /\ m.user_id \in DOMAIN users}

\* ListTodosByProject
ListTodosByProject(p) == {t \in DOMAIN todos : todos[t].project_id = p}

\* ListProjectsByUser, the statement as the database computes it.
\* The rows of projects JOIN users (owner) LEFT JOIN project_members that
\* pass WHERE p.owner_id = u OR pm.user_id = u; a project without membership
\* rows joins once, with a NULL membership row.
NullRow == [project_id |-> 0, user_id |-> 0, role |-> "NULL"]

ProjectMemberJoin(u) ==
    {row \in (DOMAIN projects) \X (members \cup {NullRow}) :
        LET p == row[1]
            pm == row[2]
        IN  /\ projects[p].owner_id \in DOMAIN users
            /\ IF pm = NullRow THEN \A m \in members : m.project_id # p
               ELSE pm.project_id = p
            /\ (projects[p].owner_id = u \/ pm.user_id = u)}

\* the selected columns p.id, p.name, p.owner_id, u.username of a joined row
SelectedColumns(row) ==
    [id |-> row[1], name |-> projects[row[1]].name, owner_id |-> projects[row[1]].owner_id,
     owner_username |-> users[projects[row[1]].owner_id].username]

\* the result of a SELECT without DISTINCT: one result row per joined row
ListProjectsByUserRows_NoDistinct(u) ==
    LET result == {SelectedColumns(row) : row \in ProjectMemberJoin(u)}
    IN  [x \in result |-> Cardinality({row \in ProjectMemberJoin(u) : SelectedColumns(row) = x})]

\* the result of SELECT DISTINCT, as a bag of result rows
ListProjectsByUserRows(u) ==
    SetToBag({SelectedColumns(row) : row \in ProjectMemberJoin(u)})

\* ListProjectsByUser: projects JOIN users (owner) LEFT JOIN project_members,
\* WHERE owner_id = u OR pm.user_id = u, DISTINCT
ListProjectsByUser(u) ==
    {p \in DOMAIN projects :
        /\ projects[p].owner_id \in DOMAIN users
        /\ (projects[p].owner_id = u \/ \E m \in members : m.project_id = p /\ m.user_id = u)}

\* ======================= store: writes =======================
\* A write is a record naming the store call and its arguments; Commit applies
\* it to the tables.  Foreign keys are enforced (PRAGMA foreign_keys=ON).

NoWrite == [call |-> "none"]

\* CreateUser: INSERT INTO users; username is UNIQUE
CreateUserOk(name) == \A u \in DOMAIN users : users[u].username # name

\* CreateProject: INSERT INTO projects; owner_id REFERENCES users(id)
CreateProjectOk(owner) == owner \in DOMAIN users

\* CreateTodo: INSERT INTO todos; project_id REFERENCES projects(id)
CreateTodoOk(p) == p \in DOMAIN projects

\* AddProjectMember: both columns are foreign keys
AddProjectMemberOk(p, u) == p \in DOMAIN projects /\ u \in DOMAIN users

\* An insert that leaves an existing row of the pair as it is (INSERT OR IGNORE).
AddProjectMemberRows_InsertOrIgnore(p, u, role) ==
    IF MemberRows(p, u) # {} THEN members
    ELSE members \cup {[project_id |-> p, user_id |-> u, role |-> role]}

\* An insert into a table without the key (project_id, user_id).
AddProjectMemberRows_PlainInsert(p, u, role) ==
    members \cup {[project_id |-> p, user_id |-> u, role |-> role]}

\* AddProjectMember: INSERT OR REPLACE / ON CONFLICT (project_id, user_id) DO UPDATE
AddProjectMemberRows(p, u, role) ==
    (members \ MemberRows(p, u)) \cup {[project_id |-> p, user_id |-> u, role |-> role]}

\* A delete without the user_id condition.
RemoveProjectMemberRows_WholeProject(p, u) == {m \in members : m.project_id # p}

\* RemoveProjectMember: DELETE ... WHERE project_id = ? AND user_id = ?
RemoveProjectMemberRows(p, u) == members \ MemberRows(p, u)

\* UpdateUser: UPDATE users SET username = ?, ..., is_admin = ? WHERE id = ?;
\* username is UNIQUE
UpdateUserOk(id, name) == \A u \in DOMAIN users \ {id} : users[u].username # name

\* the projects that DELETE FROM users removes through projects.owner_id
\* ... ON DELETE CASCADE
OwnedProjects(u) == {p \in DOMAIN projects : projects[p].owner_id = u}

\* UPDATE projects SET name = ?, description = ? WHERE id = ?
UpdateProjectRows(id, name) ==
    [p \in DOMAIN projects |-> IF p = id THEN [projects[p] EXCEPT !.name = name] ELSE projects[p]]

\* UPDATE todos SET title = ?, description = ?, status = ?, priority = ?, deadline = ? WHERE id = ?
UpdateTodoRows(id, todo) ==
    [t \in DOMAIN todos |->
        IF t = id
        THEN [todos[t] EXCEPT !.title = todo.title, !.status = todo.status,
                              !.priority = todo.priority]
        ELSE todos[t]]

\* UPDATE users SET username = ?, email = ?, password = ?, is_admin = ? WHERE id = ?
UpdateUserRows(id, username, is_admin) ==
    [u \in DOMAIN users |->
        IF u = id THEN [username |-> username, is_admin |-> is_admin] ELSE users[u]]

\* ---- the two implementations of store.Store, method by method ----
\* the outcome of a method: the error it returns and the tables it leaves
Tables == [users |-> users, projects |-> projects, todos |-> todos, members |-> members]

ErrUnique == "unique constraint"
ErrForeignKey == "foreign key constraint"

\* sqlite: ExecContext of the UPDATE; no row matching is no error
SqliteUpdateProject(id, name) ==
    [err |-> Nil, tables |-> [Tables EXCEPT !.projects = UpdateProjectRows(id, name)]]

SqliteUpdateTodo(id, todo) ==
    [err |-> Nil, tables |-> [Tables EXCEPT !.todos = UpdateTodoRows(id, todo)]]

SqliteUpdateUser(id, username, is_admin) ==
    IF id \in DOMAIN users /\ ~UpdateUserOk(id, username)
    THEN [err |-> ErrUnique, tables |-> Tables]
    ELSE [err |-> Nil, tables |-> [Tables EXCEPT !.users = UpdateUserRows(id, username, is_admin)]]

\* sqlite: fk tells whether the connection of the statement enforces foreign keys
SqliteAddProjectMember(p, u, role, fk) ==
    IF fk /\ ~AddProjectMemberOk(p, u) THEN [err |-> ErrForeignKey, tables |-> Tables]
    ELSE [err |-> Nil, tables |-> [Tables EXCEPT !.members = AddProjectMemberRows(p, u, role)]]

SqliteRemoveProjectMember(p, u) ==
    [err |-> Nil, tables |-> [Tables EXCEPT !.members = RemoveProjectMemberRows(p, u)]]

\* postgres: QueryRowContext of UPDATE ... RETURNING updated_at, then Scan;
\* no row matching is sql.ErrNoRows
PostgresUpdateProject(id, name) ==
    IF id \notin DOMAIN projects THEN [err |-> ErrNoRows, tables |-> Tables]
    ELSE [err |-> Nil, tables |-> [Tables EXCEPT !.projects = UpdateProjectRows(id, name)]]

PostgresUpdateTodo(id, todo) ==
    IF id \notin DOMAIN todos THEN [err |-> ErrNoRows, tables |-> Tables]
    ELSE [err |-> Nil, tables |-> [Tables EXCEPT !.todos = UpdateTodoRows(id, todo)]]

PostgresUpdateUser(id, username, is_admin) ==
    IF id \notin DOMAIN users THEN [err |-> ErrNoRows, tables |-> Tables]
    ELSE IF ~UpdateUserOk(id, username) THEN [err |-> ErrUnique, tables |-> Tables]
    ELSE [err |-> Nil, tables |-> [Tables EXCEPT !.users = UpdateUserRows(id, username, is_admin)]]

PostgresAddProjectMember(p, u, role) ==
    IF ~AddProjectMemberOk(p, u) THEN [err |-> ErrForeignKey, tables |-> Tables]
    ELSE [err |-> Nil, tables |-> [Tables EXCEPT !.members = AddProjectMemberRows(p, u, role)]]

PostgresRemoveProjectMember(p, u) ==
    [err |-> Nil, tables |-> [Tables EXCEPT !.members = RemoveProjectMemberRows(p, u)]]

Commit(w) ==
    CASE w.call = "none" -> UNCHANGED vars
      [] w.call = "CreateUser" ->
            /\ users' = users @@ (nextUserId :> [username |-> w.username, is_admin |-> FALSE])
            /\ nextUserId' = nextUserId + 1
            /\ UNCHANGED <<projects, todos, members, nextProjectId, nextTodoId>>
      [] w.call = "CreateProject" ->
            /\ projects' = projects @@ (nextProjectId :> [name |-> w.name, owner_id |-> w.owner_id])
            /\ nextProjectId' = nextProjectId + 1
            /\ UNCHANGED <<users, todos, members, nextUserId, nextTodoId>>
      [] w.call = "UpdateProject" ->
            \* UPDATE projects SET name = ?, description = ? WHERE id = ?
            /\ projects' = UpdateProjectRows(w.id, w.name)
            /\ UNCHANGED <<users, todos, members, nextUserId, nextProjectId, nextTodoId>>
      [] w.call = "DeleteProject" ->
            \* DELETE FROM projects; todos and project_members ON DELETE CASCADE
            /\ projects' = Drop(projects, w.id)
            /\ todos' = [t \in {x \in DOMAIN todos : todos[x].project_id # w.id} |-> todos[t]]
            /\ members' = {m \in members : m.project_id # w.id}
            /\ UNCHANGED <<users, nextUserId, nextProjectId, nextTodoId>>
      [] w.call = "AddProjectMember" ->
            /\ members' = AddProjectMemberRows(w.project_id, w.user_id, w.role)
            /\ UNCHANGED <<users, projects, todos, nextUserId, nextProjectId, nextTodoId>>
      [] w.call = "RemoveProjectMember" ->
            /\ members' = RemoveProjectMemberRows(w.project_id, w.user_id)
            /\ UNCHANGED <<users, projects, todos, nextUserId, nextProjectId, nextTodoId>>
      [] w.call = "CreateTodo" ->
            /\ todos' = todos @@ (nextTodoId :> w.todo)
            /\ nextTodoId' = nextTodoId + 1
            /\ UNCHANGED <<users, projects, members, nextUserId, nextProjectId>>
      [] w.call = "UpdateTodo" ->
            \* UPDATE todos SET title, description, status, priority, deadline WHERE id = ?
            /\ todos' = UpdateTodoRows(w.id, w.todo)
            /\ UNCHANGED <<users, projects, members, nextUserId, nextProjectId, nextTodoId>>
      [] w.call = "DeleteTodo" ->
            /\ todos' = Drop(todos, w.id)
            /\ UNCHANGED <<users, projects, members, nextUserId, nextProjectId, nextTodoId>>
      [] w.call = "UpdateUser" ->
            /\ users' = UpdateUserRows(w.id, w.username, w.is_admin)
            /\ UNCHANGED <<projects, todos, members, nextUserId, nextProjectId, nextTodoId>>
      [] w.call = "DeleteUser" ->
            \* DELETE FROM users; projects (owner_id) and project_members (user_id)
            \* ON DELETE CASCADE, and from the projects on to todos and project_members
            /\ users' = Drop(users, w.id)
            /\ projects' = [p \in DOMAIN projects \ OwnedProjects(w.id) |-> projects[p]]
            /\ todos' = [t \in {x \in DOMAIN todos : todos[x].project_id \notin OwnedProjects(w.id)}
                            |-> todos[t]]
            /\ members' = {m \in members :
                              m.user_id # w.id /\ m.project_id \notin OwnedProjects(w.id)}
            /\ UNCHANGED <<nextUserId, nextProjectId, nextTodoId>>
      [] w.call = "DeleteProject, foreign_keys=OFF" ->
            \* the statement on a connection that does not enforce foreign keys
            /\ projects' = Drop(projects, w.id)
            /\ UNCHANGED <<users, todos, members, nextUserId, nextProjectId, nextTodoId>>
      [] w.call = "DeleteUser, foreign_keys=OFF" ->
            /\ users' = Drop(users, w.id)
            /\ UNCHANGED <<projects, todos, members, nextUserId, nextProjectId, nextTodoId>>

\* ======================= handlers =======================
\* A handler's outcome: the HTTP status, the error message of writeError ("" on
\* success), whether a store query of the request failed with a database
\* error, the data of the response body, and the store write it issues.

Resp(status, error, failed, data, w) ==
    [status |-> status, error |-> error, failed |-> failed, data |-> data, w |-> w]

Fail(status, error, failed) == Resp(status, error, failed, NoData, NoWrite)

\* (*Auth).Register; body = [username] ("" when a required field is missing)
Register(body, fault) ==
    IF body = Malformed THEN Fail(StatusBadRequest, "invalid request body", FALSE)
    ELSE IF body.username = ""
    THEN Fail(StatusBadRequest, "username, email, and password are required", FALSE)
    ELSE IF fault = 1 \/ ~CreateUserOk(body.username)
    THEN Fail(StatusConflict, "username or email already exists", fault = 1)
    ELSE Resp(StatusCreated, "", FALSE, nextUserId, [call |-> "CreateUser", username |-> body.username])

\* (*Project).List
ProjectList(caller, fault) ==
    IF fault = 1 THEN Fail(StatusInternalServerError, "failed to list projects", TRUE)
    ELSE Resp(StatusOK, "", FALSE, ListProjectsByUser(caller), NoWrite)

\* (*Project).Create; body = [name]
ProjectCreate(caller, body, fault) ==
    IF body = Malformed THEN Fail(StatusBadRequest, "invalid request body", FALSE)
    ELSE IF body.name = "" THEN Fail(StatusBadRequest, "name is required", FALSE)
    ELSE IF fault = 1 \/ ~CreateProjectOk(caller)
    THEN Fail(StatusInternalServerError, "failed to create project", fault = 1)
    ELSE Resp(StatusCreated, "", FALSE, nextProjectId,
              [call |-> "CreateProject", name |-> body.name, owner_id |-> caller])

\* (*Project).Get
ProjectGet(caller, projectID, fault) ==
    LET m == IsProjectMember(projectID, caller, fault = 1)
        g == GetProject(projectID, fault = 2)
    IN  IF m.err # Nil THEN Fail(StatusInternalServerError, "internal server error", TRUE)
        ELSE IF ~m.ok THEN Fail(StatusForbidden, "you do not have access to this project", FALSE)
        ELSE IF g.err = ErrNoRows THEN Fail(StatusNotFound, "project not found", FALSE)
        ELSE IF g.err # Nil THEN Fail(StatusInternalServerError, "failed to get project", TRUE)
        ELSE Resp(StatusOK, "", FALSE, g.project, NoWrite)

\* (*Project).GetRole
ProjectGetRole(caller, projectID, fault) ==
    LET r == GetMemberRole(projectID, caller, fault = 1, fault = 2)
    IN  IF r.err # Nil THEN Fail(StatusInternalServerError, "internal server error", r.failed)
        ELSE IF r.role = ""
        THEN Fail(StatusForbidden, "you do not have access to this project", r.failed)
        ELSE Resp(StatusOK, "", FALSE, r.role, NoWrite)

\* (*Project).Update; body = [name] ("": keep the name)
ProjectUpdate(caller, projectID, body, fault) ==
    LET g == GetProject(projectID, fault = 1)
    IN  IF g.err = ErrNoRows THEN Fail(StatusNotFound, "project not found", FALSE)
        ELSE IF g.err # Nil THEN Fail(StatusInternalServerError, "failed to get project", TRUE)
        ELSE IF g.project.owner_id # caller
        THEN Fail(StatusForbidden, "only the owner can update this project", FALSE)
        ELSE IF body = Malformed THEN Fail(StatusBadRequest, "invalid request body", FALSE)
        ELSE IF fault = 2 THEN Fail(StatusInternalServerError, "failed to update project", TRUE)
        ELSE LET name == IF body.name # "" THEN body.name ELSE g.project.name
             IN  Resp(StatusOK, "", FALSE, [g.project EXCEPT !.name = name],
                      [call |-> "UpdateProject", id |-> projectID, name |-> name])

\* (*Project).Delete
ProjectDelete(caller, projectID, fault) ==
    LET g == GetProject(projectID, fault = 1)
    IN  IF g.err = ErrNoRows THEN Fail(StatusNotFound, "project not found", FALSE)
        ELSE IF g.err # Nil THEN Fail(StatusInternalServerError, "failed to get project", TRUE)
        ELSE IF g.project.owner_id # caller
        THEN Fail(StatusForbidden, "only the owner can delete this project", FALSE)
        ELSE IF fault = 2 THEN Fail(StatusInternalServerError, "failed to delete project", TRUE)
        ELSE Resp(StatusNoContent, "", FALSE, NoData, [call |-> "DeleteProject", id |-> projectID])

\* (*Project).ListMembers
ProjectListMembers(caller, projectID, fault) ==
    LET m == IsProjectMember(projectID, caller, fault = 1)
    IN  IF m.err # Nil THEN Fail(StatusInternalServerError, "internal server error", TRUE)
        ELSE IF ~m.ok THEN Fail(StatusForbidden, "you do not have access to this project", FALSE)
        ELSE IF fault = 2 THEN Fail(StatusInternalServerError, "failed to list members", TRUE)
        ELSE Resp(StatusOK, "", FALSE, ListProjectMembers(projectID), NoWrite)

\* AddMember that also admits the role string "owner".
ProjectAddMember_OwnerRoleAllowed(caller, projectID, body, fault) ==
    LET g == GetProject(projectID, fault = 1)
    IN  IF g.err # Nil THEN Fail(StatusNotFound, "project not found", g.failed)
        ELSE IF g.project.owner_id # caller
        THEN Fail(StatusForbidden, "only the owner can add members", FALSE)
        ELSE IF body = Malformed THEN Fail(StatusBadRequest, "invalid request body", FALSE)
        ELSE IF body.username = "" THEN Fail(StatusBadRequest, "username is required", FALSE)
        ELSE LET role == IF body.role = "" THEN "viewer" ELSE body.role
                 t == GetUserByUsername(body.username, fault = 2)
             IN  IF role # "viewer" /\ role # "editor" /\ role # "owner"
                 THEN Fail(StatusBadRequest, "role must be 'viewer' or 'editor'", FALSE)
                 ELSE IF t.err # Nil THEN Fail(StatusNotFound, "user not found", t.failed)
                 ELSE IF t.id = caller
                 THEN Fail(StatusBadRequest, "you are already the owner", FALSE)
                 ELSE IF fault = 3 \/ ~AddProjectMemberOk(projectID, t.id)
                 THEN Fail(StatusInternalServerError, "failed to add member", fault = 3)
                 ELSE Resp(StatusCreated, "", FALSE,
                           [project_id |-> projectID, user_id |-> t.id, role |-> role],
                           [call |-> "AddProjectMember", project_id |-> projectID,
                            user_id |-> t.id, role |-> role])

\* AddMember without the check of the role string.
ProjectAddMember_NoRoleCheck(caller, projectID, body, fault) ==
    LET g == GetProject(projectID, fault = 1)
    IN  IF g.err # Nil THEN Fail(StatusNotFound, "project not found", g.failed)
        ELSE IF g.project.owner_id # caller
        THEN Fail(StatusForbidden, "only the owner can add members", FALSE)
        ELSE IF body = Malformed THEN Fail(StatusBadRequest, "invalid request body", FALSE)
        ELSE IF body.username = "" THEN Fail(StatusBadRequest, "username is required", FALSE)
        ELSE LET role == IF body.role = "" THEN "viewer" ELSE body.role
                 t == GetUserByUsername(body.username, fault = 2)
             IN  IF t.err # Nil THEN Fail(StatusNotFound, "user not found", t.failed)
                 ELSE IF t.id = caller
                 THEN Fail(StatusBadRequest, "you are already the owner", FALSE)
                 ELSE IF fault = 3 \/ ~AddProjectMemberOk(projectID, t.id)
                 THEN Fail(StatusInternalServerError, "failed to add member", fault = 3)
                 ELSE Resp(StatusCreated, "", FALSE,
                           [project_id |-> projectID, user_id |-> t.id, role |-> role],
                           [call |-> "AddProjectMember", project_id |-> projectID,
                            user_id |-> t.id, role |-> role])

\* AddMember without the check that the target is the caller.
ProjectAddMember_NoSelfCheck(caller, projectID, body, fault) ==
    LET g == GetProject(projectID, fault = 1)
    IN  IF g.err # Nil THEN Fail(StatusNotFound, "project not found", g.failed)
        ELSE IF g.project.owner_id # caller
        THEN Fail(StatusForbidden, "only the owner can add members", FALSE)
        ELSE IF body = Malformed THEN Fail(StatusBadRequest, "invalid request body", FALSE)
        ELSE IF body.username = "" THEN Fail(StatusBadRequest, "username is required", FALSE)
        ELSE LET role == IF body.role = "" THEN "viewer" ELSE body.role
                 t == GetUserByUsername(body.username, fault = 2)
             IN  IF role # "viewer" /\ role # "editor"
                 THEN Fail(StatusBadRequest, "role must be 'viewer' or 'editor'", FALSE)
                 ELSE IF t.err # Nil THEN Fail(StatusNotFound, "user not found", t.failed)
                 ELSE IF fault = 3 \/ ~AddProjectMemberOk(projectID, t.id)
                 THEN Fail(StatusInternalServerError, "failed to add member", fault = 3)
                 ELSE Resp(StatusCreated, "", FALSE,
                           [project_id |-> projectID, user_id |-> t.id, role |-> role],
                           [call |-> "AddProjectMember", project_id |-> projectID,
                            user_id |-> t.id, role |-> role])

\* (*Project).AddMember; body = [username, role]
ProjectAddMember(caller, projectID, body, fault) ==
    LET g == GetProject(projectID, fault = 1)
    IN  IF g.err # Nil THEN Fail(StatusNotFound, "project not found", g.failed)
        ELSE IF g.project.owner_id # caller
        THEN Fail(StatusForbidden, "only the owner can add members", FALSE)
        ELSE IF body = Malformed THEN Fail(StatusBadRequest, "invalid request body", FALSE)
        ELSE IF body.username = "" THEN Fail(StatusBadRequest, "username is required", FALSE)
        ELSE LET role == IF body.role = "" THEN "viewer" ELSE body.role
                 t == GetUserByUsername(body.username, fault = 2)
             IN  IF role # "viewer" /\ role # "editor"
                 THEN Fail(StatusBadRequest, "role must be 'viewer' or 'editor'", FALSE)
                 ELSE IF t.err # Nil THEN Fail(StatusNotFound, "user not found", t.failed)
                 ELSE IF t.id = caller
                 THEN Fail(StatusBadRequest, "you are already the owner", FALSE)
                 ELSE IF fault = 3 \/ ~AddProjectMemberOk(projectID, t.id)
                 THEN Fail(StatusInternalServerError, "failed to add member", fault = 3)
                 ELSE Resp(StatusCreated, "", FALSE,
                           [project_id |-> projectID, user_id |-> t.id, role |-> role],
                           [call |-> "AddProjectMember", project_id |-> projectID,
                            user_id |-> t.id, role |-> role])

\* RemoveMember without the owner check.
ProjectRemoveMember_NoOwnerCheck(caller, projectID, memberID, fault) ==
    LET g == GetProject(projectID, fault = 1)
    IN  IF g.err # Nil THEN Fail(StatusNotFound, "project not found", g.failed)
        ELSE IF fault = 2 THEN Fail(StatusInternalServerError, "failed to remove member", TRUE)
        ELSE Resp(StatusNoContent, "", FALSE, NoData,
                  [call |-> "RemoveProjectMember", project_id |-> projectID, user_id |-> memberID])

\* (*Project).RemoveMember
ProjectRemoveMember(caller, projectID, memberID, fault) ==
    LET g == GetProject(projectID, fault = 1)
    IN  IF g.err # Nil THEN Fail(StatusNotFound, "project not found", g.failed)
        ELSE IF g.project.owner_id # caller
        THEN Fail(StatusForbidden, "only the owner can remove members", FALSE)
        ELSE IF fault = 2 THEN Fail(StatusInternalServerError, "failed to remove member", TRUE)
        ELSE Resp(StatusNoContent, "", FALSE, NoData,
                  [call |-> "RemoveProjectMember", project_id |-> projectID, user_id |-> memberID])

\* (*Todo).ListByProject
TodoListByProject(caller, projectID, fault) ==
    LET m == IsProjectMember(projectID, caller, fault = 1)
    IN  IF m.err # Nil THEN Fail(StatusInternalServerError, "internal server error", TRUE)
        ELSE IF ~m.ok THEN Fail(StatusForbidden, "you do not have access to this project", FALSE)
        ELSE IF fault = 2 THEN Fail(StatusInternalServerError, "failed to list todos", TRUE)
        ELSE Resp(StatusOK, "", FALSE, ListTodosByProject(projectID), NoWrite)

\* (*Todo).Create; body = [title, status, priority] ("" is an omitted field)
TodoCreate(caller, projectID, body, fault) ==
    LET r == GetMemberRole(projectID, caller, fault = 1, fault = 2)
    IN  IF r.err # Nil THEN Fail(StatusInternalServerError, "internal server error", r.failed)
        ELSE IF r.role = ""
        THEN Fail(StatusForbidden, "you do not have access to this project", r.failed)
        ELSE IF r.role = "viewer" THEN Fail(StatusForbidden, "viewers cannot create todos", FALSE)
        ELSE IF body = Malformed THEN Fail(StatusBadRequest, "invalid request body", FALSE)
        ELSE IF body.title = "" THEN Fail(StatusBadRequest, "title is required", FALSE)
        ELSE LET status == IF body.status = "" THEN "pending" ELSE body.status
                 priority == IF body.priority = "" THEN "medium" ELSE body.priority
                 todo == [project_id |-> projectID, title |-> body.title,
                          status |-> status, priority |-> priority]
             IN  IF ~ValidStatus(status)
                 THEN Fail(StatusBadRequest,
                           "status must be 'pending', 'in_progress', or 'completed'", FALSE)
                 ELSE IF ~ValidPriority(priority)
                 THEN Fail(StatusBadRequest, "priority must be 'low', 'medium', or 'high'", FALSE)
                 ELSE IF fault = 3 \/ ~CreateTodoOk(projectID)
                 THEN Fail(StatusInternalServerError, "failed to create todo", fault = 3)
                 ELSE Resp(StatusCreated, "", FALSE, todo, [call |-> "CreateTodo", todo |-> todo])

\* (*Todo).Get from "Verify access" on: the todo has been loaded, and the
\* access check and the answer are evaluated in the state they run in
TodoGetAccess(caller, todo, fault) ==
    LET m == IsProjectMember(todo.project_id, caller, fault = 2)
    IN  IF m.err # Nil
        THEN Fail(StatusInternalServerError, "internal server error", TRUE)
        ELSE IF ~m.ok
        THEN Fail(StatusForbidden, "you do not have access to this todo", FALSE)
        ELSE Resp(StatusOK, "", FALSE, todo, NoWrite)

\* (*Todo).Get
TodoGet(caller, todoID, fault) ==
    LET g == GetTodo(todoID, fault = 1)
    IN  IF g.err = ErrNoRows THEN Fail(StatusNotFound, "todo not found", FALSE)
        ELSE IF g.err # Nil THEN Fail(StatusInternalServerError, "failed to get todo", TRUE)
        ELSE TodoGetAccess(caller, g.todo, fault)

\* (*Todo).Update storing each field as soon as it is accepted: a body with
\* a title and an invalid status is answered 400 after the title is written
TodoUpdateAccess_WritesAsItValidates(caller, todoID, loaded, body, fault) ==
    LET r == GetMemberRole(loaded.project_id, caller, fault = 2, fault = 3)
        titled == [loaded EXCEPT !.title = IF body.title # Omitted THEN body.title ELSE @]
        todo == [titled EXCEPT
                   !.status = IF body.status # Omitted THEN body.status ELSE @,
                   !.priority = IF body.priority # Omitted THEN body.priority ELSE @]
    IN  IF r.err # Nil
        THEN Fail(StatusInternalServerError, "internal server error", r.failed)
        ELSE IF r.role = ""
        THEN Fail(StatusForbidden, "you do not have access to this todo", r.failed)
        ELSE IF r.role = "viewer"
        THEN Fail(StatusForbidden, "viewers cannot edit todos", FALSE)
        ELSE IF body = Malformed
        THEN Fail(StatusBadRequest, "invalid request body", FALSE)
        ELSE IF body.status # Omitted /\ ~ValidStatus(body.status)
        THEN Resp(StatusBadRequest, "invalid status", FALSE, NoData,
                  [call |-> "UpdateTodo", id |-> todoID, todo |-> titled])
        ELSE IF body.priority # Omitted /\ ~ValidPriority(body.priority)
        THEN Fail(StatusBadRequest, "invalid priority", FALSE)
        ELSE IF fault = 4
        THEN Fail(StatusInternalServerError, "failed to update todo", TRUE)
        ELSE Resp(StatusOK, "", FALSE, todo,
                  [call |-> "UpdateTodo", id |-> todoID, todo |-> todo])

\* (*Todo).Update from the role lookup on: loaded is the todo GetTodo returned
TodoUpdateAccess(caller, todoID, loaded, body, fault) ==
    LET r == GetMemberRole(loaded.project_id, caller, fault = 2, fault = 3)
        todo == [loaded EXCEPT
                   !.title = IF body.title # Omitted THEN body.title ELSE @,
                   !.status = IF body.status # Omitted THEN body.status ELSE @,
                   !.priority = IF body.priority # Omitted THEN body.priority ELSE @]
    IN  IF r.err # Nil
        THEN Fail(StatusInternalServerError, "internal server error", r.failed)
        ELSE IF r.role = ""
        THEN Fail(StatusForbidden, "you do not have access to this todo", r.failed)
        ELSE IF r.role = "viewer"
        THEN Fail(StatusForbidden, "viewers cannot edit todos", FALSE)
        ELSE IF body = Malformed
        THEN Fail(StatusBadRequest, "invalid request body", FALSE)
        ELSE IF body.status # Omitted /\ ~ValidStatus(body.status)
        THEN Fail(StatusBadRequest, "invalid status", FALSE)
        ELSE IF body.priority # Omitted /\ ~ValidPriority(body.priority)
        THEN Fail(StatusBadRequest, "invalid priority", FALSE)
        ELSE IF fault = 4
        THEN Fail(StatusInternalServerError, "failed to update todo", TRUE)
        ELSE Resp(StatusOK, "", FALSE, todo,
                  [call |-> "UpdateTodo", id |-> todoID, todo |-> todo])

\* (*Todo).Update; body = [title, status, priority], each a string or Omitted
TodoUpdate(caller, todoID, body, fault) ==
    LET g == GetTodo(todoID, fault = 1)
    IN  IF g.err = ErrNoRows THEN Fail(StatusNotFound, "todo not found", FALSE)
        ELSE IF g.err # Nil THEN Fail(StatusInternalServerError, "failed to get todo", TRUE)
        ELSE TodoUpdateAccess(caller, todoID, g.todo, body, fault)

\* (*Todo).Delete with the access decided by ownership of the project
\* instead of the effective role
TodoDelete_OwnerOnly(caller, todoID, fault) ==
    LET g == GetTodo(todoID, fault = 1)
    IN  IF g.err = ErrNoRows THEN Fail(StatusNotFound, "todo not found", FALSE)
        ELSE IF g.err # Nil THEN Fail(StatusInternalServerError, "failed to get todo", TRUE)
        ELSE LET r == GetMemberRole(g.todo.project_id, caller, fault = 2, fault = 3)
             IN  IF r.err # Nil
                 THEN Fail(StatusInternalServerError, "internal server error", r.failed)
                 ELSE IF r.role # "owner"
                 THEN Fail(StatusForbidden, "you do not have access to this todo", r.failed)
                 ELSE IF fault = 4
                 THEN Fail(StatusInternalServerError, "failed to delete todo", TRUE)
                 ELSE Resp(StatusNoContent, "", FALSE, NoData,
                           [call |-> "DeleteTodo", id |-> todoID])

\* (*Todo).Delete with an allow-list of one role
TodoDeleteAccess_EditorOnly(caller, todoID, loaded, fault) ==
    LET r == GetMemberRole(loaded.project_id, caller, fault = 2, fault = 3)
    IN  IF r.err # Nil
        THEN Fail(StatusInternalServerError, "internal server error", r.failed)
        ELSE IF r.role # "editor"
        THEN Fail(StatusForbidden, "you do not have access to this todo", r.failed)
        ELSE IF fault = 4
        THEN Fail(StatusInternalServerError, "failed to delete todo", TRUE)
        ELSE Resp(StatusNoContent, "", FALSE, NoData,
                  [call |-> "DeleteTodo", id |-> todoID])

\* (*Todo).Delete from the role lookup on: loaded is the todo GetTodo returned
TodoDeleteAccess(caller, todoID, loaded, fault) ==
    LET r == GetMemberRole(loaded.project_id, caller, fault = 2, fault = 3)
    IN  IF r.err # Nil
        THEN Fail(StatusInternalServerError, "internal server error", r.failed)
        ELSE IF r.role = ""
        THEN Fail(StatusForbidden, "you do not have access to this todo", r.failed)
        ELSE IF r.role = "viewer"
        THEN Fail(StatusForbidden, "viewers cannot delete todos", FALSE)
        ELSE IF fault = 4
        THEN Fail(StatusInternalServerError, "failed to delete todo", TRUE)
        ELSE Resp(StatusNoContent, "", FALSE, NoData,
                  [call |-> "DeleteTodo", id |-> todoID])

\* (*Todo).Delete
TodoDelete(caller, todoID, fault) ==
    LET g == GetTodo(todoID, fault = 1)
    IN  IF g.err = ErrNoRows THEN Fail(StatusNotFound, "todo not found", FALSE)
        ELSE IF g.err # Nil THEN Fail(StatusInternalServerError, "failed to get todo", TRUE)
        ELSE TodoDeleteAccess(caller, todoID, g.todo, fault)

\* (*User).isAdmin: the error it writes, or status 200 (nothing written yet)
\* for an admin
isAdmin(caller, fail) ==
    LET g == GetUserByID(caller, fail)
    IN  IF g.err # Nil THEN Fail(StatusInternalServerError, "internal server error", g.failed)
        ELSE IF ~g.user.is_admin THEN Fail(StatusForbidden, "admin access required", FALSE)
        ELSE Resp(StatusOK, "", FALSE, NoData, NoWrite)

\* (*User).Update; body = [username, is_admin], each the JSON value or Omitted
UserUpdate(caller, userID, body, fault) ==
    LET a == isAdmin(caller, fault = 1)
        g == GetUserByID(userID, fault = 2)
    IN  IF a.status # StatusOK THEN a
        ELSE IF g.err # Nil THEN Fail(StatusNotFound, "user not found", g.failed)
        ELSE IF body = Malformed THEN Fail(StatusBadRequest, "invalid request body", FALSE)
        ELSE LET user == [username |-> IF body.username # Omitted THEN body.username
                                       ELSE g.user.username,
                          is_admin |-> IF body.is_admin # Omitted THEN body.is_admin = "true"
                                       ELSE g.user.is_admin]
             IN  IF fault = 3 \/ ~UpdateUserOk(userID, user.username)
                 THEN Fail(StatusInternalServerError, "failed to update user", fault = 3)
                 ELSE Resp(StatusOK, "", FALSE, user,
                           [call |-> "UpdateUser", id |-> userID,
                            username |-> user.username, is_admin |-> user.is_admin])

\* (*User).Delete
UserDelete(caller, userID, fault) ==
    LET a == isAdmin(caller, fault = 1)
    IN  IF a.status # StatusOK THEN a
        ELSE IF userID = caller THEN Fail(StatusBadRequest, "you cannot delete yourself", FALSE)
        ELSE IF fault = 2 THEN Fail(StatusInternalServerError, "failed to delete user", TRUE)
        ELSE Resp(StatusNoContent, "", FALSE, NoData, [call |-> "DeleteUser", id |-> userID])

\* (*User).List
UserList(caller, fault) ==
    LET a == isAdmin(caller, fault = 1)
    IN  IF a.status # StatusOK THEN a
        ELSE IF fault = 2 THEN Fail(StatusInternalServerError, "failed to list users", TRUE)
        ELSE Resp(StatusOK, "", FALSE, users, NoWrite)

\* (*User).Stats; GetStats counts users, projects, todos and completed todos
UserStats(caller, fault) ==
    LET a == isAdmin(caller, fault = 1)
    IN  IF a.status # StatusOK THEN a
        ELSE IF fault = 2 THEN Fail(StatusInternalServerError, "failed to get stats", TRUE)
        ELSE Resp(StatusOK, "", FALSE,
                  [total_users |-> Cardinality(DOMAIN users),
                   total_projects |-> Cardinality(DOMAIN projects),
                   total_todos |-> Cardinality(DOMAIN todos),
                   completed_todos |->
                       Cardinality({t \in DOMAIN todos : todos[t].status = "completed"})],
                  NoWrite)

\* ======================= requests =======================

\* callers: the subject of a token issued by Register or Login
Callers == 1..(nextUserId - 1)

RegisterBodies ==
    {Malformed} \cup
    [username : {"", Usernames[nextUserId]} \cup {users[u].username : u \in DOMAIN users}]

ProjectBodies == {Malformed} \cup [name : ProjectNames]

\* a project is created as "n1" and renamed to "n2"
CreateProjectBodies == ProjectBodies \ {[name |-> "n2"]}

MemberBodies ==
    {Malformed, [username |-> "", role |-> "editor"]} \cup [username : NameSet, role : RoleStrings]

CreateTodoBodies ==
    {Malformed}
    \cup [title : TitleStrings, status : StatusStrings, priority : {""}]
    \cup [title : {"t1"}, status : {""}, priority : PriorityStrings]

UpdateTodoBodies ==
    {Malformed}
    \cup [title : {Omitted} \cup TitleStrings, status : {Omitted} \cup StatusStrings,
          priority : {Omitted}]
    \cup [title : {Omitted}, status : {Omitted}, priority : PriorityStrings]

UserBodies ==
    {Malformed} \cup [username : {Omitted, "zed"}, is_admin : {Omitted, "true", "false"}]

\* (*Auth).Me
AuthMe(caller, fault) ==
    LET g == GetUserByID(caller, fault = 1)
    IN  IF g.err # Nil THEN Fail(StatusNotFound, "user not found", g.failed)
        ELSE Resp(StatusOK, "", FALSE, g.user, NoWrite)

\* the letters of the usernames, for LIKE '%' || q || '%'
Letters ==
    [alice |-> <<"a", "l", "i", "c", "e">>, bob |-> <<"b", "o", "b">>,
     carol |-> <<"c", "a", "r", "o", "l">>, dave |-> <<"d", "a", "v", "e">>,
     zed |-> <<"z", "e", "d">>]

Like(name, q) ==
    \E i \in 0..(Len(Letters[name]) - Len(q)) : SubSeq(Letters[name], i + 1, i + Len(q)) = q

\* (*User).Search; q is the query parameter as a sequence of letters
UserSearch(caller, q, fault) ==
    IF q = <<>> THEN Resp(StatusOK, "", FALSE, {}, NoWrite)
    ELSE IF fault = 1 THEN Fail(StatusInternalServerError, "failed to search users", TRUE)
    ELSE Resp(StatusOK, "", FALSE,
              {u \in DOMAIN users \ {caller} : Like(users[u].username, q)}, NoWrite)

\* ======================= middleware.Auth and the router =======================
JWTSecret == "secret"

\* strconv.FormatInt and strconv.ParseInt on the ids of the model
Decimal == <<"1", "2", "3">>

FormatInt(i) == Decimal[i]

ParseInt(str) ==
    IF \E i \in DOMAIN Decimal : str \in {Decimal[i], "0" \o Decimal[i], "+" \o Decimal[i]}
    THEN [err |-> Nil,
          value |-> CHOOSE i \in DOMAIN Decimal :
                        str \in {Decimal[i], "0" \o Decimal[i], "+" \o Decimal[i]}]
    ELSE [err |-> "strconv.ErrSyntax", value |-> 0]

\* GenerateToken: HS256 with the server's secret, exp 72 hours ahead, sub the id
GenerateToken(userID) ==
    [alg |-> "HS256", key |-> JWTSecret, expired |-> FALSE, sub |-> FormatInt(userID)]

\* a claim sub that is not a JSON string
NotAString == "<number>"

\* tokens: the ones the server issues, and tokens with one defect each
IssuedTokens == {GenerateToken(u) : u \in UserIds}

DefectiveTokens ==
    {[GenerateToken(1) EXCEPT !.alg = "none"],
     [GenerateToken(1) EXCEPT !.alg = "RS256"],
     [GenerateToken(1) EXCEPT !.key = "other"],
     [GenerateToken(1) EXCEPT !.expired = TRUE],
     [GenerateToken(1) EXCEPT !.sub = Omitted],
     [GenerateToken(1) EXCEPT !.sub = "abc"],
     [GenerateToken(1) EXCEPT !.sub = NotAString]}

\* the Authorization header: absent, or its parts around the first space
NoHeader == [missing |-> TRUE]

Headers ==
    {NoHeader}
    \cup [scheme : {"Bearer", "bearer", "BEARER"}, parts : {2}, token : IssuedTokens]
    \cup [scheme : {"Bearer", "Basic"}, parts : {1, 2}, token : {GenerateToken(1)}]
    \cup [scheme : {"Bearer"}, parts : {2}, token : DefectiveTokens]

\* strings.EqualFold(scheme, "bearer")
EqualFoldBearer(scheme) == scheme \in {"bearer", "Bearer", "BEARER"}

\* jwt.Parse with a key function that accepts HMAC methods only
ParseToken_AnyMethod(token) ==
    IF token.alg # "none" /\ token.key # JWTSecret
    THEN [err |-> "signature is invalid", valid |-> FALSE]
    ELSE IF token.expired THEN [err |-> "token is expired", valid |-> FALSE]
    ELSE [err |-> Nil, valid |-> TRUE]

ParseToken(token) ==
    IF token.alg # "HS256" THEN [err |-> "signature is invalid", valid |-> FALSE]
    ELSE IF token.key # JWTSecret THEN [err |-> "signature is invalid", valid |-> FALSE]
    ELSE IF token.expired THEN [err |-> "token is expired", valid |-> FALSE]
    ELSE [err |-> Nil, valid |-> TRUE]

\* middleware.Auth: the 401 it writes, or status 200 and the user id it puts
\* in the request context
Auth(header) ==
    LET Unauthorized(msg) == [status |-> StatusUnauthorized, error |-> msg, userID |-> 0]
    IN  IF header = NoHeader THEN Unauthorized("missing authorization header")
        ELSE IF header.parts # 2 \/ ~EqualFoldBearer(header.scheme)
        THEN Unauthorized("invalid authorization format")
        ELSE LET t == ParseToken(header.token)
             IN  IF t.err # Nil \/ ~t.valid THEN Unauthorized("invalid or expired token")
                 ELSE IF header.token.sub = NotAString
                 THEN Unauthorized("invalid token subject")
                 ELSE LET id == ParseInt(IF header.token.sub = Omitted THEN ""
                                         ELSE header.token.sub)
                      IN  IF id.err # Nil THEN Unauthorized("invalid user id in token")
                          ELSE [status |-> StatusOK, error |-> "", userID |-> id.value]

\* NewRouter: the routes of the group that uses middleware.Auth, with the
\* path parameters and a body of each
Routes ==
    [name : {"auth.Me", "project.List", "user.Stats", "user.List"}]
    \cup [name : {"project.Get", "project.GetRole", "project.Delete", "project.ListMembers",
                  "todo.ListByProject"}, id : ProjectIds]
    \cup [name : {"project.Create", "project.Update"}, id : ProjectIds, body : {[name |-> "n1"]}]
    \cup [name : {"project.AddMember"}, id : ProjectIds,
          body : [username : NameSet, role : {"editor"}]]
    \cup [name : {"project.RemoveMember"}, id : ProjectIds, userID : UserIds]
    \cup [name : {"todo.Create"}, id : ProjectIds,
          body : {[title |-> "t1", status |-> "", priority |-> ""]}]
    \cup [name : {"todo.Get", "todo.Delete"}, id : TodoIds]
    \cup [name : {"todo.Update"}, id : TodoIds,
          body : {[title |-> "", status |-> "completed", priority |-> Omitted]}]
    \cup [name : {"user.Search"}, q : {<<>>, <<"o">>}]
    \cup [name : {"user.Update"}, id : UserIds, body : {[username |-> "zed", is_admin |-> "true"]}]
    \cup [name : {"user.Delete"}, id : UserIds]

\* the handler of a route, run for the user id of the request context
Dispatch(route, u) ==
    CASE route.name = "auth.Me" -> AuthMe(u, 0)
      [] route.name = "project.List" -> ProjectList(u, 0)
      [] route.name = "project.Create" -> ProjectCreate(u, route.body, 0)
      [] route.name = "project.Get" -> ProjectGet(u, route.id, 0)
      [] route.name = "project.GetRole" -> ProjectGetRole(u, route.id, 0)
      [] route.name = "project.Update" -> ProjectUpdate(u, route.id, route.body, 0)
      [] route.name = "project.Delete" -> ProjectDelete(u, route.id, 0)
      [] route.name = "project.ListMembers" -> ProjectListMembers(u, route.id, 0)
      [] route.name = "project.AddMember" -> ProjectAddMember(u, route.id, route.body, 0)
      [] route.name = "project.RemoveMember" -> ProjectRemoveMember(u, route.id, route.userID, 0)
      [] route.name = "todo.ListByProject" -> TodoListByProject(u, route.id, 0)
      [] route.name = "todo.Create" -> TodoCreate(u, route.id, route.body, 0)
      [] route.name = "todo.Get" -> TodoGet(u, route.id, 0)
      [] route.name = "todo.Update" -> TodoUpdate(u, route.id, route.body, 0)
      [] route.name = "todo.Delete" -> TodoDelete(u, route.id, 0)
      [] route.name = "user.Search" -> UserSearch(u, route.q, 0)
      [] route.name = "user.Stats" -> UserStats(u, 0)
      [] route.name = "user.List" -> UserList(u, 0)
      [] route.name = "user.Update" -> UserUpdate(u, route.id, route.body, 0)
      [] route.name = "user.Delete" -> UserDelete(u, route.id, 0)

\* a request to a protected route: Auth, then the handler
Serve(header, route) ==
    LET a == Auth(header)
    IN  IF a.status = StatusUnauthorized THEN Fail(StatusUnauthorized, a.error, FALSE)
        ELSE Dispatch(route, a.userID)

\* the request is answered (r) and its store write, if any, is applied
Do(r) == Commit(r.w)

\* A fault that a request does not reach changes nothing, and one that it
\* reaches before it looks at the body does not depend on the body: faults
\* are combined with one body that passes the validation.
WithFaults(bodies, valid, faults) == (bodies \X {0}) \cup (valid \X faults)

DoRegister ==
    /\ nextUserId <= MaxUsers
    /\ \E rq \in WithFaults(RegisterBodies, {[username |-> Usernames[nextUserId]]}, 1..1) :
          Do(Register(rq[1], rq[2]))

DoProjectList ==
    \E caller \in Callers, fault \in 0..1 :
        Do(ProjectList(caller, fault))

DoProjectCreate ==
    /\ nextProjectId <= MaxProjects
    /\ \E caller \in Callers, rq \in WithFaults(CreateProjectBodies, {[name |-> "n1"]}, 1..1) :
          Do(ProjectCreate(caller, rq[1], rq[2]))

DoProjectGet ==
    \E caller \in Callers, p \in ProjectIds, fault \in 0..2 :
        Do(ProjectGet(caller, p, fault))

DoProjectGetRole ==
    \E caller \in Callers, p \in ProjectIds, fault \in 0..2 :
        Do(ProjectGetRole(caller, p, fault))

\* An update route that hands the project to the caller.
DoProjectUpdate_TransfersOwner ==
    \E caller \in DOMAIN users, p \in DOMAIN projects :
        /\ projects' = [projects EXCEPT ![p].owner_id = caller]
        /\ UNCHANGED <<users, todos, members, nextUserId, nextProjectId, nextTodoId>>

DoProjectUpdate ==
    \E caller \in Callers, p \in ProjectIds,
       rq \in WithFaults(ProjectBodies, {[name |-> "n2"]}, 1..2) :
        Do(ProjectUpdate(caller, p, rq[1], rq[2]))

DoProjectDelete ==
    \E caller \in Callers, p \in ProjectIds, fault \in 0..2 :
        Do(ProjectDelete(caller, p, fault))

DoProjectListMembers ==
    \E caller \in Callers, p \in ProjectIds, fault \in 0..2 :
        Do(ProjectListMembers(caller, p, fault))

DoProjectAddMember ==
    \E caller \in Callers, p \in ProjectIds,
       rq \in WithFaults(MemberBodies, [username : NameSet, role : {"editor"}], 1..3) :
        Do(ProjectAddMember(caller, p, rq[1], rq[2]))

DoProjectRemoveMember ==
    \E caller \in Callers, p \in ProjectIds, rq \in WithFaults(UserIds, {1}, 1..2) :
        Do(ProjectRemoveMember(caller, p, rq[1], rq[2]))

DoTodoListByProject ==
    \E caller \in Callers, p \in ProjectIds, fault \in 0..2 :
        Do(TodoListByProject(caller, p, fault))

DoTodoCreate ==
    /\ nextTodoId <= MaxTodos
    /\ \E caller \in Callers, p \in ProjectIds,
          rq \in WithFaults(CreateTodoBodies,
                            {[title |-> "t1", status |-> "", priority |-> ""]}, 1..3) :
          Do(TodoCreate(caller, p, rq[1], rq[2]))

DoTodoGet ==
    \E caller \in Callers, t \in TodoIds, fault \in 0..2 :
        Do(TodoGet(caller, t, fault))

DoTodoUpdate ==
    \E caller \in Callers, t \in TodoIds,
       rq \in WithFaults(UpdateTodoBodies,
                         {[title |-> "t1", status |-> "completed", priority |-> Omitted]}, 1..4) :
        Do(TodoUpdate(caller, t, rq[1], rq[2]))

DoTodoDelete ==
    \E caller \in Callers, t \in TodoIds, fault \in 0..4 :
        Do(TodoDelete(caller, t, fault))

DoUserUpdate ==
    \E caller \in Callers, u \in UserIds,
       rq \in WithFaults(UserBodies, {[username |-> Omitted, is_admin |-> "true"]}, 1..3) :
        Do(UserUpdate(caller, u, rq[1], rq[2]))

DoUserDelete ==
    \E caller \in Callers, u \in UserIds, fault \in 0..2 :
        Do(UserDelete(caller, u, fault))

DoUserList ==
    \E caller \in Callers, fault \in 0..2 : Do(UserList(caller, fault))

DoUserStats ==
    \E caller \in Callers, fault \in 0..2 : Do(UserStats(caller, fault))

\* a request to a protected route that middleware.Auth answers
DoUnauthorized ==
    \E header \in Headers, route \in Routes :
        /\ Auth(header).status = StatusUnauthorized
        /\ Do(Serve(header, route))

\* a request to a protected route with a token the server issued
DoServe ==
    \E u \in Callers, route \in Routes :
        /\ route.name = "project.Create" => nextProjectId <= AdminMaxProjects
        /\ route.name = "todo.Create" => nextTodoId <= MaxTodos
        /\ Do(Serve([scheme |-> "Bearer", parts |-> 2, token |-> GenerateToken(u)], route))

\* No request creates the first admin ((*Auth).Register stores is_admin = 0):
\* the operator sets users.is_admin in the database.
ProvisionAdmin ==
    /\ \A u \in DOMAIN users : ~users[u].is_admin
    /\ \E u \in DOMAIN users :
          Commit([call |-> "UpdateUser", id |-> u,
                  username |-> users[u].username, is_admin |-> TRUE])

Init ==
    /\ users = <<>>
    /\ projects = <<>>
    /\ todos = <<>>
    /\ members = {}
    /\ nextUserId = 1
    /\ nextProjectId = 1
    /\ nextTodoId = 1

Next ==
    \/ DoRegister
    \/ DoProjectList
    \/ DoProjectCreate
    \/ DoProjectGet
    \/ DoProjectGetRole
    \/ DoProjectUpdate
    \/ DoProjectDelete
    \/ DoProjectListMembers
    \/ DoProjectAddMember
    \/ DoProjectRemoveMember
    \/ DoTodoListByProject
    \/ DoTodoCreate
    \/ DoTodoGet
    \/ DoTodoUpdate
    \/ DoTodoDelete

Spec == Init /\ [][Next]_vars

\* ======================= the API with the admin routes =======================
\* every route of Next, with one project at most
AdminNext ==
    \/ DoRegister
    \/ DoProjectList
    \/ nextProjectId <= AdminMaxProjects /\ DoProjectCreate
    \/ DoProjectGet
    \/ DoProjectGetRole
    \/ DoProjectUpdate
    \/ DoProjectDelete
    \/ DoProjectListMembers
    \/ DoProjectAddMember
    \/ DoProjectRemoveMember
    \/ DoTodoListByProject
    \/ DoTodoCreate
    \/ DoTodoGet
    \/ DoTodoUpdate
    \/ DoTodoDelete
    \/ ProvisionAdmin
    \/ DoUserList
    \/ DoUserStats
    \/ DoUserUpdate
    \/ DoUserDelete

AdminSpec == Init /\ [][AdminNext]_vars

\* ======================= the sqlite store behind database/sql's pool =======================
\* sqlite.New runs PRAGMA foreign_keys=ON once, on the pooled connection that
\* db.Exec happens to use; the pool has no connection limit and the DSN sets
\* no pragma, so a connection opened later (for a request that arrives while
\* the first connection is busy) does not enforce foreign keys.  A statement
\* runs on either kind of connection.
OnConnection(w, fk) ==
    IF fk THEN w
    ELSE IF w.call = "DeleteProject" THEN [w EXCEPT !.call = "DeleteProject, foreign_keys=OFF"]
    ELSE IF w.call = "DeleteUser" THEN [w EXCEPT !.call = "DeleteUser, foreign_keys=OFF"]
    ELSE w

PoolProjectDelete ==
    \E caller \in Callers, p \in ProjectIds, fk \in BOOLEAN :
        Commit(OnConnection(ProjectDelete(caller, p, 0).w, fk))

PoolUserDelete ==
    \E caller \in Callers, u \in UserIds, fk \in BOOLEAN :
        Commit(OnConnection(UserDelete(caller, u, 0).w, fk))

PoolNext ==
    \/ DoRegister
    \/ nextProjectId <= AdminMaxProjects /\ DoProjectCreate
    \/ DoProjectAddMember
    \/ DoTodoCreate
    \/ ProvisionAdmin
    \/ PoolProjectDelete
    \/ PoolUserDelete

PoolSpec == Init /\ [][PoolNext]_vars

\* ======================= the Store interface called directly =======================
\* ---- the router: every request to a protected route passes middleware.Auth ----
AuthNext ==
    \/ DoRegister
    \/ ProvisionAdmin
    \/ DoUnauthorized
    \/ DoServe

AuthSpec == Init /\ [][AuthNext]_vars

\* ---- the todo routes with every value of the todo fields ----
\* One project, its owner and one more user, and two todos; the bodies of
\* todo create and update range over every status and priority.
AllCreateTodoBodies ==
    {Malformed} \cup [title : TitleStrings, status : AllStatusStrings,
                      priority : AllPriorityStrings]

AllUpdateTodoBodies ==
    {Malformed} \cup [title : {Omitted} \cup TitleStrings,
                      status : {Omitted} \cup AllStatusStrings,
                      priority : {Omitted} \cup AllPriorityStrings]

FieldTodoIds == 1..FieldMaxTodos

FieldTodoCreate ==
    /\ nextTodoId <= FieldMaxTodos
    /\ \E caller \in Callers, p \in ProjectIds, body \in AllCreateTodoBodies :
          Do(TodoCreate(caller, p, body, 0))

FieldTodoUpdate ==
    \E caller \in Callers, t \in FieldTodoIds, body \in AllUpdateTodoBodies :
        Do(TodoUpdate(caller, t, body, 0))

FieldTodoDelete ==
    \E caller \in Callers, t \in FieldTodoIds : Do(TodoDelete(caller, t, 0))

FieldNext ==
    \/ nextUserId <= FieldMaxUsers /\ DoRegister
    \/ nextProjectId <= AdminMaxProjects /\ DoProjectCreate
    \/ DoProjectAddMember
    \/ DoProjectRemoveMember
    \/ FieldTodoCreate
    \/ FieldTodoUpdate
    \/ FieldTodoDelete

FieldSpec == Init /\ [][FieldNext]_vars

\* The store's methods applied in any order with any arguments, as the
\* store's own tests call them; a call that violates a key constraint
\* returns an error and changes nothing.

StoreCreateUser ==
    /\ nextUserId <= MaxUsers
    /\ Commit([call |-> "CreateUser", username |-> Usernames[nextUserId]])

StoreCreateProject ==
    /\ nextProjectId <= MaxProjects
    /\ \E owner \in UserIds :
          IF CreateProjectOk(owner)
          THEN Commit([call |-> "CreateProject", name |-> "n1", owner_id |-> owner])
          ELSE UNCHANGED vars

StoreDeleteProject ==
    \E p \in ProjectIds : Commit([call |-> "DeleteProject", id |-> p])

StoreAddProjectMember ==
    \E p \in ProjectIds, u \in UserIds, role \in RoleStrings :
        IF AddProjectMemberOk(p, u)
        THEN Commit([call |-> "AddProjectMember", project_id |-> p, user_id |-> u, role |-> role])
        ELSE UNCHANGED vars

StoreRemoveProjectMember ==
    \E p \in ProjectIds, u \in UserIds :
        Commit([call |-> "RemoveProjectMember", project_id |-> p, user_id |-> u])

StoreNext ==
    \/ StoreCreateUser
    \/ StoreCreateProject
    \/ StoreDeleteProject
    \/ StoreAddProjectMember
    \/ StoreRemoveProjectMember

StoreSpec == Init /\ [][StoreNext]_vars

\* ======================= vocabulary of the properties =======================

\* the effective role of the data model: the owner, else the stored
\* membership role, else none
EffectiveRole(p, u) ==
    IF projects[p].owner_id = u THEN "owner"
    ELSE IF \E m \in members : m.project_id = p /\ m.user_id = u
    THEN (CHOOSE m \in members : m.project_id = p /\ m.user_id = u).role
    ELSE "none"

CanWrite(p, u) == EffectiveRole(p, u) \in {"owner", "editor"}

CanRead(p, u) == EffectiveRole(p, u) \in {"owner", "editor", "viewer"}

IsOwner(p, u) == projects[p].owner_id = u

\* bodies that pass the validation of the handlers
ValidCreateTodo(body) ==
    /\ body # Malformed
    /\ body.title # ""
    /\ body.status = "" \/ ValidStatus(body.status)
    /\ body.priority = "" \/ ValidPriority(body.priority)

ValidUpdateTodo(body) ==
    /\ body # Malformed
    /\ body.status = Omitted \/ ValidStatus(body.status)
    /\ body.priority = Omitted \/ ValidPriority(body.priority)

ValidAddMember(body, caller) ==
    /\ body # Malformed
    /\ body.role \in {"", "viewer", "editor"}
    /\ \E u \in DOMAIN users : users[u].username = body.username /\ u # caller

Success(r) == r.status \in {StatusOK, StatusCreated, StatusNoContent}

Forbidden(r) == r.status = StatusForbidden /\ r.w = NoWrite

NotFound(r) == r.status = StatusNotFound /\ r.w = NoWrite

\* a writing operation that is open to `allowed` callers only: it writes
\* only for them, it does write for them when the body is valid and no query
\* fails, and every other caller is answered 403 unless a query failed
WriteGate(allowed, r, valid, fault) ==
    /\ r.w # NoWrite => allowed
    /\ (allowed /\ valid /\ fault = 0) => (Success(r) /\ r.w # NoWrite)
    /\ (~allowed /\ ~r.failed) => Forbidden(r)

\* a reading operation that is open to `allowed` callers only
ReadGate(allowed, r, fault) ==
    /\ Success(r) => allowed
    /\ (allowed /\ fault = 0) => r.status = StatusOK
    /\ (~allowed /\ ~r.failed) => (Forbidden(r) /\ r.data = NoData)

MissingProjects == ProjectIds \ DOMAIN projects

MissingTodos == TodoIds \ DOMAIN todos

\* ======================= C1 =======================
\* C1: for every existing project P with owner U, role resolution for (P, U)
\* answers "owner" without an error, also when a membership row for (P, U)
\* exists (the membership query is not reached, so its failure changes nothing).
C1_OwnerResolvesToOwner ==
    \A p \in DOMAIN projects : \A fail2 \in BOOLEAN :
        LET r == GetMemberRole(p, projects[p].owner_id, FALSE, fail2)
        IN  r.role = "owner" /\ r.err = Nil

\* a project whose owner also has a membership row with role viewer or editor
C1_Witness ==
    \E p \in DOMAIN projects : \E m \in members :
        /\ m.project_id = p /\ m.user_id = projects[p].owner_id
        /\ m.role \in {"viewer", "editor"}
        /\ GetMemberRole(p, m.user_id, FALSE, FALSE).role = "owner"

C5_GatesAgree ==
    \A p \in DOMAIN projects : \A u \in UserIds :
        LET m == IsProjectMember(p, u, FALSE)
            r == GetMemberRole(p, u, FALSE, FALSE)
        IN  /\ m.err = Nil /\ r.err = Nil
            /\ m.ok <=> r.role # ""

\* a project with its owner, a member and a user without a row
C5_Witness ==
    \E p \in DOMAIN projects : \E u, n \in DOMAIN users :
        /\ ~IsOwner(p, u) /\ ~IsOwner(p, n)
        /\ IsProjectMember(p, u, FALSE).ok
        /\ GetMemberRole(p, u, FALSE, FALSE).role \in {"viewer", "editor"}
        /\ ~IsProjectMember(p, n, FALSE).ok
        /\ GetMemberRole(p, n, FALSE, FALSE).role = ""
        /\ IsProjectMember(p, projects[p].owner_id, FALSE).ok

\* ======================= C6 =======================
\* C6: every protected project or todo operation whose target project or
\* todo does not exist is answered 404, for every caller and every body (so
\* that 403 is answered for an existing target only).
C6_MissingTargetIsNotFound ==
    \A caller \in Callers :
        /\ \A p \in MissingProjects :
              /\ NotFound(ProjectGet(caller, p, 0))
              /\ \A body \in ProjectBodies : NotFound(ProjectUpdate(caller, p, body, 0))
              /\ NotFound(ProjectDelete(caller, p, 0))
              /\ NotFound(ProjectListMembers(caller, p, 0))
              /\ \A body \in MemberBodies : NotFound(ProjectAddMember(caller, p, body, 0))
              /\ \A memberID \in UserIds : NotFound(ProjectRemoveMember(caller, p, memberID, 0))
              /\ NotFound(TodoListByProject(caller, p, 0))
              /\ \A body \in CreateTodoBodies : NotFound(TodoCreate(caller, p, body, 0))
        /\ \A t \in MissingTodos :
              /\ NotFound(TodoGet(caller, t, 0))
              /\ \A body \in UpdateTodoBodies : NotFound(TodoUpdate(caller, t, body, 0))
              /\ NotFound(TodoDelete(caller, t, 0))

\* a caller reads a project id that does not exist and is answered 403
C6_MissingTargetForbidden ==
    \E caller \in Callers : \E p \in MissingProjects :
        /\ ProjectGet(caller, p, 0).status = StatusForbidden
        /\ ProjectListMembers(caller, p, 0).status = StatusForbidden
        /\ TodoListByProject(caller, p, 0).status = StatusForbidden
        /\ TodoCreate(caller, p, [title |-> "t1", status |-> "", priority |-> ""], 0).status
               = StatusInternalServerError
        /\ ProjectDelete(caller, p, 0).status = StatusNotFound

\* ======================= C7 =======================
\* C7: for a project id that does not exist, GetMemberRole returns no role
\* and the row-absent error (not a database failure), and get own role and
\* create todo answer 404.
C7_MissingProjectRoleIsNotFound ==
    \A caller \in Callers : \A p \in MissingProjects :
        LET r == GetMemberRole(p, caller, FALSE, FALSE)
        IN  /\ r.role = "" /\ r.err = ErrNoRows /\ ~r.failed
            /\ NotFound(ProjectGetRole(caller, p, 0))
            /\ \A body \in CreateTodoBodies : NotFound(TodoCreate(caller, p, body, 0))

\* get own role and create todo on a project id that does not exist are
\* answered 500 "internal server error"
C7_MissingProjectIs500 ==
    \E caller \in Callers : \E p \in MissingProjects :
        /\ GetMemberRole(p, caller, FALSE, FALSE).err = ErrNoRows
        /\ ProjectGetRole(caller, p, 0).status = StatusInternalServerError
        /\ TodoCreate(caller, p, [title |-> "t1", status |-> "", priority |-> ""], 0).status
               = StatusInternalServerError

\* ======================= C8 =======================
\* the query that failed ends the request with 500 and without a write
StorageFailure(r) == r.failed => (r.status = StatusInternalServerError /\ r.w = NoWrite)

\* C8: whenever the project lookup, the membership test or one of the two
\* queries of the role resolution of a request fails with a database error,
\* the request is answered 500: never 403, never a success, never 404.
C8_StorageFailureIs500 ==
    \A caller \in Callers :
        /\ \A p \in ProjectIds :
              /\ \A fault \in 1..2 : StorageFailure(ProjectGet(caller, p, fault))
              /\ \A fault \in 1..2 : StorageFailure(ProjectGetRole(caller, p, fault))
              /\ StorageFailure(ProjectUpdate(caller, p, [name |-> "n2"], 1))
              /\ StorageFailure(ProjectDelete(caller, p, 1))
              /\ StorageFailure(ProjectListMembers(caller, p, 1))
              /\ \A body \in MemberBodies : StorageFailure(ProjectAddMember(caller, p, body, 1))
              /\ \A memberID \in UserIds :
                    StorageFailure(ProjectRemoveMember(caller, p, memberID, 1))
              /\ StorageFailure(TodoListByProject(caller, p, 1))
              /\ \A fault \in 1..2, body \in CreateTodoBodies :
                    StorageFailure(TodoCreate(caller, p, body, fault))
        /\ \A t \in TodoIds :
              /\ StorageFailure(TodoGet(caller, t, 2))
              /\ \A fault \in 2..3, body \in UpdateTodoBodies :
                    StorageFailure(TodoUpdate(caller, t, body, fault))
              /\ \A fault \in 2..3 : StorageFailure(TodoDelete(caller, t, fault))

\* an editor whose membership query fails is answered 403, and the owner
\* whose project lookup fails in add member is answered 404
C8_FailureSwallowed ==
    \E p \in DOMAIN projects : \E e \in Callers :
        LET body == [title |-> "t1", status |-> "", priority |-> ""]
            add == ProjectAddMember(projects[p].owner_id, p,
                                    [username |-> users[e].username, role |-> "editor"], 1)
        IN  /\ EffectiveRole(p, e) = "editor"
            /\ TodoCreate(e, p, body, 0).status = StatusCreated
            /\ TodoCreate(e, p, body, 2).failed
            /\ TodoCreate(e, p, body, 2).status = StatusForbidden
            /\ add.failed /\ add.status = StatusNotFound

\* ======================= C9 =======================
RoleError(r) ==
    /\ r.status = StatusBadRequest
    /\ r.error = "role must be 'viewer' or 'editor'"
    /\ r.w = NoWrite

C10_OwnerCannotAddSelf ==
    /\ \A p \in DOMAIN projects : \A role \in RoleStrings, fault \in 0..3 :
          LET owner == projects[p].owner_id
              r == ProjectAddMember(owner, p, [username |-> users[owner].username,
                                               role |-> role], fault)
          IN  /\ ~Success(r) /\ r.w = NoWrite
              /\ (role \in {"viewer", "editor", ""} /\ fault = 0) =>
                    /\ r.status = StatusBadRequest
                    /\ r.error = "you are already the owner"
    /\ \A m \in members :
          m.project_id \in DOMAIN projects /\ m.user_id # projects[m.project_id].owner_id

\* a project with a member row, whose owner is answered 400 when adding
\* themselves as editor and as viewer
C10_Witness ==
    \E p \in DOMAIN projects : \E m \in members :
        LET owner == projects[p].owner_id
            add(role) == ProjectAddMember(owner, p, [username |-> users[owner].username,
                                                     role |-> role], 0)
        IN  /\ m.project_id = p
            /\ add("editor").error = "you are already the owner"
            /\ add("viewer").error = "you are already the owner"
            /\ MemberRows(p, owner) = {}

\* ======================= C11 =======================
\* C11: after any sequence of API requests, the admin routes included, every
\* membership row carries the role viewer or editor, and no membership row
\* names the owner of its project as the member.
C11_MembershipRows ==
    \A m \in members :
        /\ m.role \in {"viewer", "editor"}
        /\ m.project_id \in DOMAIN projects => m.user_id # projects[m.project_id].owner_id

\* a membership row exists after an admin has deleted a user and renamed the
\* project's owner, whose own add-member request is rejected
C11_Witness ==
    \E m \in members : \E d \in Callers :
        LET owner == projects[m.project_id].owner_id
        IN  /\ d \notin DOMAIN users
            /\ users[owner].username = "zed"
            /\ ProjectAddMember(owner, m.project_id, [username |-> "zed", role |-> "editor"], 0).w
                   = NoWrite

\* ======================= C16 =======================
DeletedProjects == (1..(nextProjectId - 1)) \ DOMAIN projects

DeletedUsers == (1..(nextUserId - 1)) \ DOMAIN users

\* C16: every todo and every membership row references an existing project,
\* and no user has a role on a deleted project (no membership row, the
\* membership test is false, no role is resolved).
C16_DeleteProjectCascades ==
    /\ \A t \in DOMAIN todos : todos[t].project_id \in DOMAIN projects
    /\ \A m \in members : m.project_id \in DOMAIN projects
    /\ \A p \in DeletedProjects : \A u \in UserIds :
          /\ MemberRows(p, u) = {}
          /\ ~IsProjectMember(p, u, FALSE).ok
          /\ GetMemberRole(p, u, FALSE, FALSE).role = ""

\* the project is deleted and its membership row and its todo are still
\* there: the member still passes the membership test and lists the todos
C16_OrphansAfterDelete ==
    \E p \in DeletedProjects : \E m \in members : \E t \in DOMAIN todos :
        /\ m.project_id = p /\ todos[t].project_id = p
        /\ IsProjectMember(p, m.user_id, FALSE).ok
        /\ TodoListByProject(m.user_id, p, 0).status = StatusOK
        /\ TodoGet(m.user_id, t, 0).status = StatusOK

\* ======================= C17 =======================
\* C17: for every deleted user U, no project owned by U, no todo of such a
\* project and no membership row of U remains, and U passes no membership
\* test and resolves to no role on any project.
C17_DeleteUserCascades ==
    \A u \in DeletedUsers :
        /\ OwnedProjects(u) = {}
        /\ \A t \in DOMAIN todos : todos[t].project_id \in DOMAIN projects
        /\ \A m \in members : m.user_id # u
        /\ \A p \in DOMAIN projects :
              /\ ~IsProjectMember(p, u, FALSE).ok
              /\ GetMemberRole(p, u, FALSE, FALSE).role = ""

\* a deleted user's project is still there with its todo, and the deleted
\* user (whose token is still valid) deletes the todo as the owner
C17_OrphansAfterUserDelete ==
    \E u \in DeletedUsers : \E p \in OwnedProjects(u) : \E t \in DOMAIN todos :
        /\ todos[t].project_id = p
        /\ GetMemberRole(p, u, FALSE, FALSE).role = "owner"
        /\ TodoDelete(u, t, 0).w # NoWrite

AddProjectMemberStep(p, u, role) ==
    /\ AddProjectMemberOk(p, u)
    /\ Commit([call |-> "AddProjectMember", project_id |-> p, user_id |-> u, role |-> role])

\* C13 as stated: for every project P, user U and role r in {viewer, editor},
\* right after a successful AddProjectMember(P, U, r) GetMemberRole(P, U)
\* returns r, whatever row existed before.  (A step that writes a row m is
\* looked at through m; a call that rewrites the row it finds changes nothing.)
C13_AddThenResolve ==
    [][\A m \in members' \ members :
          (m.role \in {"viewer", "editor"}
             /\ AddProjectMemberStep(m.project_id, m.user_id, m.role)) =>
              LET r == GetMemberRole(m.project_id, m.user_id, FALSE, FALSE)'
              IN  r.err = Nil /\ r.role = m.role]_vars

\* C13 (amended): for every project P, user U other than the owner of P and
\* role r in {viewer, editor}, right after a successful AddProjectMember(P, U, r)
\* GetMemberRole(P, U) returns r, whatever row existed before (so that
\* the same call made again changes nothing); for the owner of P it returns
\* "owner" as before; and the call leaves exactly the row it writes for the
\* pair, in every state.
C13_AddThenResolveNonOwner ==
    /\ [](\A p \in DOMAIN projects, u \in DOMAIN users, role \in {"viewer", "editor"} :
            {m \in AddProjectMemberRows(p, u, role) : m.project_id = p /\ m.user_id = u}
                = {[project_id |-> p, user_id |-> u, role |-> role]})
    /\ [][\A m \in members' \ members :
             (m.role \in {"viewer", "editor"}
                /\ AddProjectMemberStep(m.project_id, m.user_id, m.role)) =>
                 LET p == m.project_id
                     u == m.user_id
                     r == GetMemberRole(p, u, FALSE, FALSE)'
                 IN  /\ r.err = Nil
                     /\ r.role = IF projects[p].owner_id = u THEN "owner" ELSE m.role
                     /\ MemberRows(p, u)' = {m}
                     /\ AddProjectMemberRows(p, u, m.role)' = members']_vars

\* a user who is not the owner resolves to the stored role editor, next to
\* an owner with a stored viewer row and a user with a viewer row
C13_Witness ==
    \E p \in DOMAIN projects : \E u, v \in DOMAIN users :
        LET owner == projects[p].owner_id
        IN  /\ u # owner /\ v # owner
            /\ MemberRows(p, u) = {[project_id |-> p, user_id |-> u, role |-> "editor"]}
            /\ MemberRows(p, v) = {[project_id |-> p, user_id |-> v, role |-> "viewer"]}
            /\ MemberRows(p, owner) = {[project_id |-> p, user_id |-> owner, role |-> "viewer"]}
            /\ GetMemberRole(p, u, FALSE, FALSE).role = "editor"
            /\ GetMemberRole(p, v, FALSE, FALSE).role = "viewer"
            /\ GetMemberRole(p, owner, FALSE, FALSE).role = "owner"

\* ======================= C14 =======================
\* C14: RemoveProjectMember(P, U) is applied whether or not a row for (P, U)
\* exists (the owner's remove-member request is answered 204 and issues it
\* either way); after it no row for (P, U) exists, a U who is not the owner
\* fails the membership test and resolves to no role, and every other
\* membership row is as before.
C14_RemoveIsIdempotent ==
    /\ [](\A p \in DOMAIN projects : \A u \in UserIds :
            /\ ENABLED Commit([call |-> "RemoveProjectMember", project_id |-> p, user_id |-> u])
            /\ projects[p].owner_id \in DOMAIN users =>
                  LET r == ProjectRemoveMember(projects[p].owner_id, p, u, 0)
                  IN  /\ r.status = StatusNoContent
                      /\ r.w = [call |-> "RemoveProjectMember", project_id |-> p, user_id |-> u])
    /\ [][\A x \in members \ members' :
             LET p == x.project_id
                 u == x.user_id
             IN  Commit([call |-> "RemoveProjectMember", project_id |-> p, user_id |-> u]) =>
                     /\ MemberRows(p, u)' = {}
                     /\ members' = {m \in members : ~(m.project_id = p /\ m.user_id = u)}
                     /\ (p \in DOMAIN projects /\ projects[p].owner_id # u) =>
                           /\ ~IsProjectMember(p, u, FALSE)'.ok
                           /\ GetMemberRole(p, u, FALSE, FALSE)'.role = ""]_vars

\* a project where one user has a row and another user, not the owner, has
\* none: removing either is answered 204
C14_Witness ==
    \E p \in DOMAIN projects : \E u, n \in DOMAIN users :
        LET owner == projects[p].owner_id
        IN  /\ u # owner /\ n # owner /\ owner \in DOMAIN users
            /\ MemberRows(p, u) # {} /\ MemberRows(p, n) = {}
            /\ ~IsProjectMember(p, n, FALSE).ok
            /\ ProjectRemoveMember(owner, p, u, 0).status = StatusNoContent
            /\ ProjectRemoveMember(owner, p, n, 0).status = StatusNoContent

\* ======================= C15 =======================
\* the outcome of the three requests on a todo, for every body and fault
TodoOutcomes(u, t) ==
    [get |-> [fault \in 0..2 |-> TodoGet(u, t, fault)],
     update |-> [rq \in UpdateTodoBodies \X {0} |-> TodoUpdate(u, t, rq[1], rq[2])],
     delete |-> [fault \in 0..4 |-> TodoDelete(u, t, fault)]]

C12_OneRowPerPair ==
    /\ [](\A p \in ProjectIds, u \in UserIds : Cardinality(MemberRows(p, u)) <= 1)
    /\ [][\A m \in members' \ members :
             /\ AddProjectMemberStep(m.project_id, m.user_id, m.role)
             /\ MemberRows(m.project_id, m.user_id)' = {m}
             /\ \A x \in members' \ {m} : x \in members]_vars

\* a pair holding one row, with role editor, on which a further add with the
\* role viewer and a remove are both applicable, next to another member's row
C12_Witness ==
    \E p \in DOMAIN projects : \E u, v \in DOMAIN users :
        /\ u # v /\ u # projects[p].owner_id
        /\ Cardinality(MemberRows(p, u)) = 1
        /\ \E m \in MemberRows(p, u) : m.role = "editor"
        /\ MemberRows(p, v) # {}
        /\ Cardinality({m \in AddProjectMemberRows(p, u, "viewer") :
                            m.project_id = p /\ m.user_id = u}) = 1
        /\ RemoveProjectMemberRows(p, u) = members \ MemberRows(p, u)
        /\ RemoveProjectMemberRows(p, u) # members

\* ======================= C19 =======================
\* C19: when the parent project of a todo does not exist at the time the
\* access of a get, update or delete is resolved, the request is answered
\* 404: for a todo whose project is gone in the state, and for a request
\* that loaded the todo before a step that deletes the project and resolves
\* the access after it.
C19_MissingParentIsNotFound ==
    /\ [](\A t \in DOMAIN todos :
            todos[t].project_id \notin DOMAIN projects =>
                \A caller \in Callers :
                    /\ TodoGet(caller, t, 0).status = StatusNotFound
                    /\ TodoUpdate(caller, t, [title |-> "t1", status |-> Omitted,
                                              priority |-> Omitted], 0).status = StatusNotFound
                    /\ TodoDelete(caller, t, 0).status = StatusNotFound)
    /\ [][\A t \in DOMAIN todos : \A loaded \in {todos[t]} : \A caller \in Callers :
             (loaded.project_id \in DOMAIN projects /\ loaded.project_id \notin DOMAIN projects')
                 => /\ TodoGetAccess(caller, loaded, 0)'.status = StatusNotFound
                    /\ TodoUpdateAccess(caller, t, loaded,
                                        [title |-> "t1", status |-> Omitted,
                                         priority |-> Omitted], 0)'.status = StatusNotFound
                    /\ TodoDeleteAccess(caller, t, loaded, 0)'.status = StatusNotFound]_vars

\* a todo whose project is gone: a user without a membership row is
\* answered 403 on get and 500 on update and delete, and a user whose
\* membership row is left is served the todo
C19_MissingParentAnswers ==
    \E t \in DOMAIN todos : \E u, v \in DOMAIN users :
        /\ todos[t].project_id \notin DOMAIN projects
        /\ MemberRows(todos[t].project_id, u) = {}
        /\ TodoGet(u, t, 0).status = StatusForbidden
        /\ TodoUpdate(u, t, [title |-> "t1", status |-> Omitted,
                             priority |-> Omitted], 0).status = StatusInternalServerError
        /\ TodoDelete(u, t, 0).status = StatusInternalServerError
        /\ MemberRows(todos[t].project_id, v) # {}
        /\ TodoGet(v, t, 0).status = StatusOK

\* ======================= C20 =======================
\* C20: a GetMemberRole call sends at most one query to the database, and
\* sends no query twice, for every project id, user and query failure.
C20_OneQueryPerResolution ==
    \A p \in ProjectIds, u \in Callers, fail1 \in BOOLEAN, fail2 \in BOOLEAN :
        LET q == GetMemberRoleQueries(p, u, fail1, fail2)
        IN  /\ Len(q) <= 1
            /\ \A i \in 1..Len(q), j \in 1..Len(q) : q[i] = q[j] => i = j

\* a member who is not the owner resolves to the stored role editor through
\* two queries, while the owner resolves through one
C20_TwoQueries ==
    \E p \in DOMAIN projects : \E u \in Callers :
        /\ u # projects[p].owner_id
        /\ GetMemberRole(p, u, FALSE, FALSE).role = "editor"
        /\ Len(GetMemberRoleQueries(p, u, FALSE, FALSE)) = 2
        /\ Len(GetMemberRoleQueries(p, projects[p].owner_id, FALSE, FALSE)) = 1

\* ======================= C23 =======================
\* the status and priority values of the data model
TodoStatuses == {"pending", "in_progress", "completed"}

TodoPriorities == {"low", "medium", "high"}

\* C23: every stored todo has a status in {pending, in_progress, completed}
\* and a priority in {low, medium, high}; a create writes the status and the
\* priority of its body, pending and medium for the ones the body omits; and
\* a create or update whose body carries any other status or priority writes
\* nothing and is not answered with success (400 for a caller who may write).
C23_StatusAndPriorityValid ==
    /\ \A t \in DOMAIN todos : todos[t].status \in TodoStatuses /\ todos[t].priority \in TodoPriorities
    /\ \A caller \in Callers, p \in ProjectIds, body \in AllCreateTodoBodies \ {Malformed} :
          LET r == TodoCreate(caller, p, body, 0)
              bad == \/ body.status # "" /\ body.status \notin TodoStatuses
                     \/ body.priority # "" /\ body.priority \notin TodoPriorities
          IN  /\ r.w # NoWrite =>
                    /\ r.w.todo.status = IF body.status = "" THEN "pending" ELSE body.status
                    /\ r.w.todo.priority = IF body.priority = "" THEN "medium" ELSE body.priority
              /\ bad => /\ r.w = NoWrite /\ ~Success(r)
                        /\ (p \in DOMAIN projects /\ CanWrite(p, caller) /\ body.title # "")
                               => r.status = StatusBadRequest
              /\ (~bad /\ p \in DOMAIN projects /\ CanWrite(p, caller) /\ body.title # "")
                     => r.status = StatusCreated
    /\ \A caller \in Callers, t \in DOMAIN todos, body \in AllUpdateTodoBodies \ {Malformed} :
          LET r == TodoUpdate(caller, t, body, 0)
              bad == \/ body.status # Omitted /\ body.status \notin TodoStatuses
                     \/ body.priority # Omitted /\ body.priority \notin TodoPriorities
          IN  /\ r.w # NoWrite =>
                    /\ r.w.todo.status
                           = IF body.status = Omitted THEN todos[t].status ELSE body.status
                    /\ r.w.todo.priority
                           = IF body.priority = Omitted THEN todos[t].priority ELSE body.priority
              /\ bad => /\ r.w = NoWrite /\ ~Success(r)
                        /\ CanWrite(todos[t].project_id, caller) => r.status = StatusBadRequest
              /\ (~bad /\ CanWrite(todos[t].project_id, caller)) => r.status = StatusOK

\* a todo stored with the defaults next to one stored as in_progress and high
C23_Witness ==
    \E t1 \in DOMAIN todos, t2 \in DOMAIN todos :
        /\ todos[t1].status = "pending" /\ todos[t1].priority = "medium"
        /\ todos[t2].status = "in_progress" /\ todos[t2].priority = "high"
        /\ \E u \in Callers :
              TodoUpdate(u, t1, [title |-> Omitted, status |-> "bogus", priority |-> Omitted], 0).status
                  = StatusBadRequest

\* ======================= C30 =======================
\* C30: every stored todo has a non-empty title, and no create or update
\* request writes a todo with an empty title.
C30_TitleNonEmpty ==
    /\ \A t \in DOMAIN todos : todos[t].title # ""
    /\ \A caller \in Callers, t \in DOMAIN todos, body \in AllUpdateTodoBodies \ {Malformed} :
          LET r == TodoUpdate(caller, t, body, 0)
          IN  r.w # NoWrite => r.w.todo.title # ""

\* a stored todo with the empty title, which the owner's get returns
C30_EmptyTitleStored ==
    \E t \in DOMAIN todos :
        /\ todos[t].title = ""
        /\ LET r == TodoGet(projects[todos[t].project_id].owner_id, t, 0)
           IN  r.status = StatusOK /\ r.data.title = ""

IsAdminNow(caller) == caller \in DOMAIN users /\ users[caller].is_admin

\* C25: stats, list users, update user and delete user take effect only for
\* a caller whose is_admin flag is true in the state of the request; every
\* other holder of a token is answered 403 (database errors aside) and no
\* user is written.  A user
\* is registered with is_admin false, and the flag of a user changes only in
\* the step of an admin's update-user request (or when the operator sets the
\* first admin in the database).
C25_AdminOnly ==
    /\ [](\A caller \in Callers :
            /\ ~IsAdminNow(caller) =>
                  /\ Forbidden(UserStats(caller, 0)) /\ Forbidden(UserList(caller, 0))
                  /\ \A u \in UserIds :
                        /\ Forbidden(UserDelete(caller, u, 0))
                        /\ \A fault \in 0..2 : UserDelete(caller, u, fault).w = NoWrite
                        /\ \A body \in UserBodies :
                              /\ Forbidden(UserUpdate(caller, u, body, 0))
                              /\ \A fault \in 0..3 : UserUpdate(caller, u, body, fault).w = NoWrite
            /\ IsAdminNow(caller) =>
                  /\ UserStats(caller, 0).status = StatusOK
                  /\ UserList(caller, 0).status = StatusOK /\ UserList(caller, 0).data = users
                  /\ \A u \in DOMAIN users \ {caller} :
                        /\ UserDelete(caller, u, 0).w = [call |-> "DeleteUser", id |-> u]
                        /\ UserUpdate(caller, u, [username |-> Omitted, is_admin |-> "true"], 0).w.call
                               = "UpdateUser")
    /\ [][/\ \A u \in DOMAIN users' \ DOMAIN users : ~users'[u].is_admin
          /\ \A u \in DOMAIN users \cap DOMAIN users' :
                users'[u].is_admin # users[u].is_admin =>
                    \/ \E caller \in Callers, body \in UserBodies \ {Malformed} :
                          /\ IsAdminNow(caller)
                          /\ UserUpdate(caller, u, body, 0).w.call = "UpdateUser"
                          /\ Commit(UserUpdate(caller, u, body, 0).w)
                    \/ (\A a \in DOMAIN users : ~users[a].is_admin) /\ users'[u].is_admin]_vars

\* a user deleted by an admin still holds a token: the admin routes answer
\* that caller 500, a registered user who is no admin 403, and the admin 200
C25_DeletedCallerIs500 ==
    \E gone \in Callers \ DOMAIN users : \E a, u \in DOMAIN users :
        /\ users[a].is_admin /\ ~users[u].is_admin
        /\ UserStats(gone, 0).status = StatusInternalServerError
        /\ UserList(gone, 0).status = StatusInternalServerError
        /\ UserDelete(gone, u, 0).status = StatusInternalServerError
        /\ UserUpdate(gone, u, [username |-> Omitted, is_admin |-> "true"], 0).status
               = StatusInternalServerError
        /\ UserStats(u, 0).status = StatusForbidden
        /\ UserStats(a, 0).status = StatusOK

\* ======================= C21 =======================
\* the precedence of the effective roles: owner > editor > viewer > none
RoleRank(role) ==
    CASE role = "owner" -> 3 [] role = "editor" -> 2 [] role = "viewer" -> 1 [] OTHER -> 0

Permitted(r) == r.status # StatusForbidden

\* the answers to every request on project p and on its todos by caller u, one
\* per operation, body and target
ProjectOutcomes(u, p) ==
    [get |-> ProjectGet(u, p, 0),
     role |-> ProjectGetRole(u, p, 0),
     update |-> [body \in ProjectBodies |-> ProjectUpdate(u, p, body, 0)],
     delete |-> ProjectDelete(u, p, 0),
     members |-> ProjectListMembers(u, p, 0),
     add |-> [body \in MemberBodies |-> ProjectAddMember(u, p, body, 0)],
     remove |-> [x \in UserIds |-> ProjectRemoveMember(u, p, x, 0)],
     todos |-> TodoListByProject(u, p, 0),
     create |-> [body \in CreateTodoBodies |-> TodoCreate(u, p, body, 0)],
     todoGet |-> [t \in ListTodosByProject(p) |-> TodoGet(u, t, 0)],
     todoUpdate |-> [rq \in ListTodosByProject(p) \X UpdateTodoBodies |->
                         TodoUpdate(u, rq[1], rq[2], 0)],
     todoDelete |-> [t \in ListTodosByProject(p) |-> TodoDelete(u, t, 0)]]

\* every answer of lo that is not 403 is matched by an answer of hi that is not 403
NoLessPermitted(lo, hi) ==
    /\ \A op \in {"get", "role", "delete", "members", "todos"} :
          Permitted(lo[op]) => Permitted(hi[op])
    /\ \A op \in {"update", "add", "remove", "create", "todoGet", "todoUpdate", "todoDelete"} :
          \A x \in DOMAIN lo[op] : Permitted(lo[op][x]) => Permitted(hi[op][x])

\* C21: on every existing project, for every operation of the project and todo
\* handlers, every body and every target, a request that is permitted (not
\* answered 403) for a caller is permitted for every caller whose effective
\* role on the project is strictly higher in owner > editor > viewer > none.
C21_PermissionMonotonic ==
    \A p \in DOMAIN projects : \A lo \in Callers, hi \in Callers :
        RoleRank(EffectiveRole(p, hi)) > RoleRank(EffectiveRole(p, lo))
            => NoLessPermitted(ProjectOutcomes(lo, p), ProjectOutcomes(hi, p))

\* a project with a todo, its owner, an editor and a viewer: the viewer reads
\* the todo, the editor deletes it, the owner does both and removes a member
C21_Witness ==
    \E t \in DOMAIN todos : \E v, e \in Callers :
        LET p == todos[t].project_id
            o == projects[p].owner_id
        IN  /\ EffectiveRole(p, v) = "viewer" /\ EffectiveRole(p, e) = "editor"
            /\ Permitted(TodoGet(v, t, 0)) /\ ~Permitted(TodoDelete(v, t, 0))
            /\ Permitted(TodoDelete(e, t, 0)) /\ ~Permitted(ProjectRemoveMember(e, p, v, 0))
            /\ Permitted(TodoDelete(o, t, 0)) /\ Permitted(ProjectRemoveMember(o, p, v, 0))

\* ======================= C28 =======================
\* the request is answered forbidden, not found or bad request
Rejected(r) == r.status \in {StatusForbidden, StatusNotFound, StatusBadRequest}

\* C28: every request that is answered 403, 404 or 400 issues no store
\* write (the step of a request without a write leaves users, projects,
\* memberships and todos as they are), for every handler, caller, target
\* and body, a todo update with a valid title and an invalid status
\* included.  (Role resolution itself,
\* IsProjectMember and GetMemberRole, is SELECT statements only.)
C28_RejectionsAreReadOnly ==
    \A caller \in Callers :
        /\ \A body \in RegisterBodies : Register(body, 0).status = StatusBadRequest
                                            => Register(body, 0).w = NoWrite
        /\ \A body \in ProjectBodies : Rejected(ProjectCreate(caller, body, 0))
                                            => ProjectCreate(caller, body, 0).w = NoWrite
        /\ \A p \in ProjectIds :
              /\ Rejected(ProjectGet(caller, p, 0)) => ProjectGet(caller, p, 0).w = NoWrite
              /\ Rejected(ProjectGetRole(caller, p, 0))
                    => ProjectGetRole(caller, p, 0).w = NoWrite
              /\ Rejected(ProjectDelete(caller, p, 0))
                    => ProjectDelete(caller, p, 0).w = NoWrite
              /\ Rejected(ProjectListMembers(caller, p, 0))
                    => ProjectListMembers(caller, p, 0).w = NoWrite
              /\ Rejected(TodoListByProject(caller, p, 0))
                    => TodoListByProject(caller, p, 0).w = NoWrite
              /\ \A body \in ProjectBodies :
                    Rejected(ProjectUpdate(caller, p, body, 0))
                        => ProjectUpdate(caller, p, body, 0).w = NoWrite
              /\ \A body \in MemberBodies :
                    Rejected(ProjectAddMember(caller, p, body, 0))
                        => ProjectAddMember(caller, p, body, 0).w = NoWrite
              /\ \A x \in UserIds :
                    Rejected(ProjectRemoveMember(caller, p, x, 0))
                        => ProjectRemoveMember(caller, p, x, 0).w = NoWrite
              /\ \A body \in CreateTodoBodies :
                    Rejected(TodoCreate(caller, p, body, 0))
                        => TodoCreate(caller, p, body, 0).w = NoWrite
        /\ \A t \in TodoIds :
              /\ Rejected(TodoGet(caller, t, 0)) => TodoGet(caller, t, 0).w = NoWrite
              /\ Rejected(TodoDelete(caller, t, 0)) => TodoDelete(caller, t, 0).w = NoWrite
              /\ \A body \in UpdateTodoBodies :
                    Rejected(TodoUpdate(caller, t, body, 0))
                        => TodoUpdate(caller, t, body, 0).w = NoWrite
        /\ \A u \in UserIds :
              /\ Rejected(UserDelete(caller, u, 0)) => UserDelete(caller, u, 0).w = NoWrite
              /\ \A body \in UserBodies :
                    Rejected(UserUpdate(caller, u, body, 0))
                        => UserUpdate(caller, u, body, 0).w = NoWrite
        /\ Rejected(UserList(caller, 0)) => UserList(caller, 0).w = NoWrite
        /\ Rejected(UserStats(caller, 0)) => UserStats(caller, 0).w = NoWrite

\* an editor's update of a stored todo with the title "" and the status
\* "bogus" is answered 400, the todo keeping its title; a viewer's update is
\* answered 403
C28_Witness ==
    \E t \in DOMAIN todos : \E e, v \in Callers :
        LET p == todos[t].project_id
            r == TodoUpdate(e, t, [title |-> "", status |-> "bogus", priority |-> Omitted], 0)
        IN  /\ EffectiveRole(p, e) = "editor" /\ EffectiveRole(p, v) = "viewer"
            /\ todos[t].title = "t1"
            /\ r.status = StatusBadRequest /\ r.error = "invalid status" /\ r.w = NoWrite
            /\ TodoUpdate(v, t, [title |-> "", status |-> Omitted, priority |-> Omitted], 0).status
                   = StatusForbidden

\* ======================= C24 =======================
\* the header carries a bearer token the server issued: scheme bearer in any
\* case, HS256 signed with the server's secret, not expired, sub a user id
ValidBearer(header) ==
    /\ header # NoHeader
    /\ header.parts = 2 /\ header.scheme \in {"Bearer", "bearer", "BEARER"}
    /\ header.token \in IssuedTokens

\* C24: a request to any protected route whose Authorization header carries
\* no valid bearer token is answered 401 by the middleware, with no data and
\* no store write, whatever the route and the state; a request with a token
\* issued to user U is answered as the handler answers U.
C24_NoTokenNoHandler ==
    \A header \in Headers, route \in Routes :
        LET r == Serve(header, route)
        IN  IF ValidBearer(header)
            THEN \E u \in UserIds : header.token = GenerateToken(u) /\ r = Dispatch(route, u)
            ELSE r.status = StatusUnauthorized /\ r.w = NoWrite /\ r.data = NoData

\* an admin and a second user are registered, with a project and a todo: the
\* admin's token deletes the user, while the same request without a header,
\* with the scheme Basic, with an unsigned token or an expired one is
\* answered 401
C24_Witness ==
    \E a, u \in DOMAIN users : \E t \in DOMAIN todos :
        LET route == [name |-> "user.Delete", id |-> u]
            good == [scheme |-> "Bearer", parts |-> 2, token |-> GenerateToken(a)]
        IN  /\ a # u /\ users[a].is_admin
            /\ Serve(good, route).w = [call |-> "DeleteUser", id |-> u]
            /\ Serve(NoHeader, route).status = StatusUnauthorized
            /\ Serve([good EXCEPT !.scheme = "Basic"], route).status = StatusUnauthorized
            /\ Serve([good EXCEPT !.token.alg = "none"], route).status = StatusUnauthorized
            /\ Serve([good EXCEPT !.token.expired = TRUE], route).status = StatusUnauthorized
            /\ Serve(NoHeader, [name |-> "todo.Get", id |-> t]).data = NoData

\* ======================= C26 =======================
\* C26: a todo handler resolves the caller's role with one statement and
\* writes with a later one, so another request's statement can take effect
\* in between.  The write that a create, update or delete decides on in a
\* state and issues after one step of another request reaches the store
\* only if the caller's effective role on the parent project is owner or
\* editor in the state of the write.
C26_NoWriteOnRevokedRole ==
    [][\A u \in Callers, p \in DOMAIN projects \cap DOMAIN projects' :
          /\ TodoCreate(u, p, [title |-> "t1", status |-> "", priority |-> ""], 0).w # NoWrite
                => CanWrite(p, u)'
          /\ \A t \in DOMAIN todos \cap DOMAIN todos' :
                todos[t].project_id = p =>
                    /\ TodoUpdate(u, t, [title |-> "t1", status |-> "completed",
                                         priority |-> Omitted], 0).w # NoWrite
                          => CanWrite(p, u)'
                    /\ TodoDelete(u, t, 0).w # NoWrite => CanWrite(p, u)']_vars

\* an editor whose update of a todo passes the role check, in a state where
\* the owner's remove-member and the owner's change of the role to viewer
\* are both about to be written
C26_RevokeWhileWriting ==
    \E t \in DOMAIN todos : \E e \in Callers :
        LET p == todos[t].project_id
            o == projects[p].owner_id
        IN  /\ EffectiveRole(p, e) = "editor"
            /\ TodoUpdate(e, t, [title |-> "t1", status |-> "completed",
                                 priority |-> Omitted], 0).w.call = "UpdateTodo"
            /\ ProjectRemoveMember(o, p, e, 0).w.call = "RemoveProjectMember"
            /\ ProjectAddMember(o, p, [username |-> users[e].username, role |-> "viewer"], 0).w.call
                   = "AddProjectMember"

\* ======================= C27 =======================
\* the todo as UpdateTodo stores it for the write w
StoredBy(w) == [title |-> w.todo.title, status |-> w.todo.status, priority |-> w.todo.priority]

\* C27: the write of a todo update sets the fields the body supplies and
\* leaves every field the body omits at the value stored at the time of the
\* write: in every state for an update that runs alone, and for an update
\* that loaded the todo before a step of another request and writes after it.
C27_OmittedFieldsKeepStoredValue ==
    /\ [](\A u \in Callers, t \in DOMAIN todos, body \in UpdateTodoBodies \ {Malformed} :
            LET w == TodoUpdate(u, t, body, 0).w
            IN  w # NoWrite =>
                    /\ body.title = Omitted => StoredBy(w).title = todos[t].title
                    /\ body.status = Omitted => StoredBy(w).status = todos[t].status
                    /\ body.priority = Omitted => StoredBy(w).priority = todos[t].priority
                    /\ body.title # Omitted => StoredBy(w).title = body.title
                    /\ body.status # Omitted => StoredBy(w).status = body.status)
    /\ [][\A u \in Callers, t \in DOMAIN todos \cap DOMAIN todos' :
             \A loaded \in {todos[t]}, body \in UpdateTodoBodies \ {Malformed} :
                 LET w == TodoUpdateAccess(u, t, loaded, body, 0)'.w
                 IN  w # NoWrite =>
                         /\ body.title = Omitted => StoredBy(w).title = todos'[t].title
                         /\ body.status = Omitted => StoredBy(w).status = todos'[t].status
                         /\ body.priority = Omitted
                               => StoredBy(w).priority = todos'[t].priority]_vars

\* a todo on which an update of the title alone and an update of the status
\* alone, by the owner and by an editor, both pass their checks
C27_TwoUpdatesInFlight ==
    \E t \in DOMAIN todos : \E e \in Callers :
        LET p == todos[t].project_id
            o == projects[p].owner_id
        IN  /\ EffectiveRole(p, e) = "editor"
            /\ todos[t].title = "t1" /\ todos[t].status = "pending"
            /\ TodoUpdate(o, t, [title |-> "", status |-> Omitted, priority |-> Omitted], 0).w.call
                   = "UpdateTodo"
            /\ TodoUpdate(e, t, [title |-> Omitted, status |-> "completed",
                                 priority |-> Omitted], 0).w.todo.title = "t1"

\* ======================= C29 =======================
\* success or error, and the tables left
SameOutcome(a, b) == (a.err = Nil <=> b.err = Nil) /\ a.tables = b.tables

\* C29: applied to the same tables, the sqlite and the postgres store return
\* the same outcome and leave the same tables, for UpdateProject, UpdateTodo
\* and UpdateUser of every id (existing or not), and for AddProjectMember and
\* RemoveProjectMember of every pair.
C29_StoresAgree ==
    /\ \A p \in ProjectIds, name \in {"n1", "n2"} :
          SameOutcome(SqliteUpdateProject(p, name), PostgresUpdateProject(p, name))
    /\ \A t \in TodoIds :
          LET todo == [title |-> "t1", status |-> "completed", priority |-> "medium"]
          IN  SameOutcome(SqliteUpdateTodo(t, todo), PostgresUpdateTodo(t, todo))
    /\ \A u \in UserIds, name \in NameSet :
          SameOutcome(SqliteUpdateUser(u, name, FALSE), PostgresUpdateUser(u, name, FALSE))
    /\ \A p \in ProjectIds, u \in UserIds :
          /\ SameOutcome(SqliteRemoveProjectMember(p, u), PostgresRemoveProjectMember(p, u))
          /\ \A role \in {"viewer", "editor"}, fk \in BOOLEAN :
                SameOutcome(SqliteAddProjectMember(p, u, role, fk),
                            PostgresAddProjectMember(p, u, role))

\* a todo that was created and deleted, next to a stored project: UpdateTodo
\* of the deleted id returns nil on sqlite and an error on postgres, and
\* both stores agree on the update of the stored project
C29_UpdateOfMissingRow ==
    \E t \in TodoIds \ DOMAIN todos : \E p \in DOMAIN projects :
        LET todo == [title |-> "t1", status |-> "completed", priority |-> "medium"]
        IN  /\ t < nextTodoId
            /\ SqliteUpdateTodo(t, todo).err = Nil
            /\ PostgresUpdateTodo(t, todo).err = ErrNoRows
            /\ SqliteUpdateTodo(t, todo).tables = PostgresUpdateTodo(t, todo).tables
            /\ SameOutcome(SqliteUpdateProject(p, "n2"), PostgresUpdateProject(p, "n2"))

====
